---- MODULE Spec2Model ----
(***************************************************************************)
(* A model of the NTWS automation toolkit: the CompositeAction sequencing  *)
(* contract, the concrete trading actions and the input they send, the     *)
(* ElementFinder with its cache, and the wait_for polling loop.            *)
(*                                                                         *)
(* The source spells some identifiers two ways (TWSAction / NTWSAction,    *)
(* tws_path / ntws_path, TWSToolkit / NTWSToolkit); the model reads each   *)
(* pair as one name.                                                       *)
(***************************************************************************)
EXTENDS Integers, Sequences, FiniteSets, TLC

VARIABLES
    \* One call of handle_tool_call (src/mcp_server/tools.py)
    m_call,         \* the tool name, the arguments and what the collaborators do
    m_raised,       \* whether an exception left _execute_tool
    m_result,       \* the text returned, or the exception that left the call
    \* One call through retry_on_failure's wrapper (src/utils/retry.py)
    y_pc,           \* "idle" | "loop" | "returned" | "raised"
    y_args,         \* the decorator's arguments
    y_attempt,      \* the loop variable `attempt`, then the passes made
    y_current_delay,   \* the local current_delay
    y_last_exception,  \* the local last_exception: the call of func that raised it
    y_events,       \* the calls of func, on_retry and time.sleep made, in order
    y_result,       \* what the call gave
    \* RegionManager.save_config / load_config
    p_file,         \* what is at the path save_config writes to
    \* One Region and the calls made on it (src/screen/regions.py)
    g_self,         \* the Region the calls are made on
    g_depth,        \* how many returned Regions g_self is away from a constructed one
    g_op,           \* the last call made on g_self and what it gave
    \* RegionManager (src/screen/regions.py)
    r_regions,      \* self.regions: name -> Region
    r_scale,        \* self.scale_factor
    r_rect,         \* what self.window.get_window_rect() gives now
    r_op,           \* the last call made on the manager and what it gave
    \* ElementFinder (src/core/element.py)
    f_cache,        \* self._cache: str(spec) -> Element
    f_strategies,   \* self._strategies: strategy -> the resolver registered
    f_next,         \* the identity the next Element constructed gets
    f_registered,   \* register_strategy calls made so far
    f_op,           \* the last call made on the finder and what it gave
    \* ElementFinder.wait_for
    w_pc,           \* "idle", "loop", "returned", "raised"
    w_spec,         \* the spec waited for
    w_passed,       \* the timeout argument (has = FALSE: None)
    w_timeout,      \* the local `timeout` after line 392, in seconds
    w_elapsed,      \* time.time() - start_time, in tenths of a second
    w_polls,        \* find calls made by this wait
    w_plan,         \* what the provider answers to the polls
    w_result,       \* the Element returned or the TimeoutError raised
    \* NTWSHotkeys (src/input/hotkeys.py); its table is `bindings` below
    h_op,           \* the last call made on the hotkey table and what it gave
    h_rebinds,      \* register calls made on this table so far
    \* One call of OrderParams.validate (src/actions/order.py)
    o_pc,           \* "idle" | "returned"
    o_params,       \* the OrderParams validated
    o_error,        \* what validate returned (NoneV: None)
    \* CompositeAction.execute (src/actions/base.py)
    c_actions,      \* self.actions: what each sub-action's execute does
    c_stop,         \* self.stop_on_failure
    c_pc,           \* "idle" | "loop" | "returned" | "raised"
    c_i,            \* position of the for loop (next sub-action to run)
    c_results,      \* the local list `results`
    c_called,       \* indices of the sub-actions whose execute was called
    c_result,       \* the ActionResult returned, NoResult before that
    \* One call of a concrete action's execute (src/actions/*.py)
    a_pc,           \* "idle" | "returned" | "raised"
    a_call,         \* the action called and its arguments
    a_sent,         \* the keyboard and mouse input the call sent, in order
    a_result,       \* the ActionResult returned
    a_faulted,      \* whether a collaborator call raised to the action during the call
    bindings,       \* NTWSHotkeys.bindings
    \* NTWSToolkit (src/__init__.py)
    paper_trading_only,  \* config.safety.paper_trading_only
    t_window,       \* whether window.connect() has found the window
    t_connect,      \* what the last connect() gave: "never" | "true" | "false" | "raised"
    t_paper         \* whether that connect() verified paper-trading mode

compVars == <<c_actions, c_stop, c_pc, c_i, c_results, c_called, c_result>>
actVars == <<a_pc, a_call, a_sent, a_result, a_faulted>>
kitVars == <<bindings, paper_trading_only, t_window, t_connect, t_paper>>

findVars == <<f_cache, f_strategies, f_next, f_registered, f_op>>

waitVars == <<w_pc, w_spec, w_passed, w_timeout, w_elapsed, w_polls, w_plan, w_result>>

ordVars == <<o_pc, o_params, o_error>>

hkVars == <<h_op, h_rebinds>>

rgVars == <<g_self, g_depth, g_op, r_regions, r_scale, r_rect, r_op>>

cfgVars == <<p_file>>

retryVars == <<y_pc, y_args, y_attempt, y_current_delay, y_last_exception, y_events, y_result>>

toolVars == <<m_call, m_raised, m_result>>

vars == <<compVars, actVars, kitVars, findVars, waitVars, ordVars, hkVars, rgVars, cfgVars, retryVars, toolVars>>

-----------------------------------------------------------------------------
(* Values shared by the whole model *)

NoneV == "None"

NoResult == [success |-> FALSE, message |-> "no result", error |-> NoneV, data |-> <<>>]

\* ActionResult.ok
ActionResultOk(message, data) ==
    [success |-> TRUE, message |-> message, error |-> NoneV, data |-> data]

\* ActionResult.fail
ActionResultFail(error, message, data) ==
    [success |-> FALSE, message |-> message, error |-> error, data |-> data]

-----------------------------------------------------------------------------
(* CompositeAction *)

MaxActions == 3

\* What one sub-action's execute does when called: return a successful
\* result, return a failed result, or raise.
Behaviours == {"ok", "fail", "raise", "invalid"}

ActionLists == UNION {[1..n -> Behaviours] : n \in 0..MaxActions}

\* The ActionResult the i-th sub-action returns: a success, a failure met
\* while executing, or ("invalid") the failure its own validation step reports.
SubResult(i, behaviour) ==
    CASE behaviour = "ok" ->
            [success |-> TRUE, message |-> "Success", error |-> NoneV, data |-> <<i>>]
      [] behaviour = "invalid" ->
            [success |-> FALSE, message |-> "Failed", error |-> "Symbol required", data |-> <<i>>]
      [] OTHER ->
            [success |-> FALSE, message |-> "Failed", error |-> "sub-action failed", data |-> <<i>>]

\* Action.__repr__ of the i-th sub-action
ActionRepr(i) == "Action" \o ToString(i) \o "()"

\* action.validate(**kwargs) of the i-th sub-action
SubValidate(i, behaviour) ==
    IF behaviour = "invalid" THEN "Symbol required" ELSE NoneV

RECURSIVE CompositeValidateFrom(_, _)
\* CompositeAction.validate: the first sub-action error, prefixed
CompositeValidateFrom(acts, i) ==
    IF i > Len(acts) THEN NoneV
    ELSE IF SubValidate(i, acts[i]) # NoneV
    THEN ActionRepr(i) \o ": " \o SubValidate(i, acts[i])
    ELSE CompositeValidateFrom(acts, i + 1)

CompositeValidate(acts) == CompositeValidateFrom(acts, 1)

StopsHere_Always(result, stop_on_failure) == ~result.success

StopsHere_Never(result, stop_on_failure) == FALSE

\* base.py:249  `if not result.success and self.stop_on_failure`
StopsHere(result, stop_on_failure) ==
    (~result.success) /\ stop_on_failure

CompositeInit ==
    /\ c_actions = <<>>
    /\ c_stop = TRUE
    /\ c_pc = "idle"
    /\ c_i = 1
    /\ c_results = <<>>
    /\ c_called = <<>>
    /\ c_result = NoResult

\* CompositeAction(toolkit, actions, stop_on_failure).execute(): entry,
\* `results = []`.
CompositeExecute ==
    /\ c_pc = "idle"
    /\ \E acts \in ActionLists, stop \in BOOLEAN :
          /\ c_actions' = acts
          /\ c_stop' = stop
    /\ c_pc' = "loop"
    /\ c_i' = 1
    /\ c_results' = <<>>
    /\ c_called' = <<>>
    /\ c_result' = NoResult
    /\ UNCHANGED <<actVars, kitVars, findVars, waitVars, ordVars, hkVars, rgVars, cfgVars, retryVars, toolVars>>

\* One iteration of `for action in self.actions`: the sub-action's execute
\* is called outside any try; its result is appended; a failure with
\* stop_on_failure returns at once with all results so far.
CompositeStep ==
    /\ c_pc = "loop"
    /\ c_i <= Len(c_actions)
    /\ c_called' = Append(c_called, c_i)
    /\ IF c_actions[c_i] = "raise"
       THEN /\ c_pc' = "raised"
            /\ UNCHANGED <<c_i, c_results, c_result>>
       ELSE LET result == SubResult(c_i, c_actions[c_i])
                results == Append(c_results, result)
            IN  /\ c_results' = results
                /\ IF StopsHere(result, c_stop)
                   THEN /\ c_pc' = "returned"
                        /\ c_result' = ActionResultFail("Action failed",
                                          "Composite action stopped on failure", results)
                        /\ UNCHANGED c_i
                   ELSE /\ c_i' = c_i + 1
                        /\ UNCHANGED <<c_pc, c_result>>
    /\ UNCHANGED <<c_actions, c_stop, actVars, kitVars, findVars, waitVars, ordVars, hkVars, rgVars, cfgVars, retryVars, toolVars>>

\* The loop ran off the end of the list: `return ActionResult.ok(...)`.
CompositeReturn ==
    /\ c_pc = "loop"
    /\ c_i > Len(c_actions)
    /\ c_pc' = "returned"
    /\ c_result' = ActionResultOk("Completed actions", c_results)
    /\ UNCHANGED <<c_actions, c_stop, c_i, c_results, c_called, actVars, kitVars, findVars, waitVars, ordVars, hkVars, rgVars, cfgVars, retryVars, toolVars>>

\* The caller takes the result (or the exception) and may call again.
CompositeDone ==
    /\ c_pc \in {"returned", "raised"}
    /\ c_pc' = "idle"
    /\ c_actions' = <<>>
    /\ c_stop' = TRUE
    /\ c_i' = 1
    /\ c_results' = <<>>
    /\ c_called' = <<>>
    /\ c_result' = NoResult
    /\ UNCHANGED <<actVars, kitVars, findVars, waitVars, ordVars, hkVars, rgVars, cfgVars, retryVars, toolVars>>

CompositeNext ==
    \/ CompositeExecute
    \/ CompositeStep
    \/ CompositeReturn
    \/ CompositeDone

-----------------------------------------------------------------------------
(* Hotkey table (src/input/hotkeys.py) *)

\* The closed enumeration NTWSAction, by value.
NTWSAction ==
    {"buy", "sell", "transmit", "cancel", "cancel_all", "modify",
     "open_chart", "zoom_in", "zoom_out", "reset_chart",
     "search_symbol", "portfolio", "orders", "trades", "watchlist",
     "new_window", "close_window", "tile_windows", "settings",
     "refresh", "export"}

NoBinding == [bound |-> FALSE, modifiers |-> <<>>, key |-> ""]

HotkeyBinding(modifiers, key) == [bound |-> TRUE, modifiers |-> modifiers, key |-> key]

\* NTWSHotkeys.DEFAULT_HOTKEYS
DEFAULT_HOTKEYS ==
    [a \in NTWSAction |->
        CASE a = "buy"           -> HotkeyBinding(<<"alt">>, "b")
          [] a = "sell"          -> HotkeyBinding(<<"alt">>, "s")
          [] a = "transmit"      -> HotkeyBinding(<<"alt">>, "t")
          [] a = "cancel"        -> HotkeyBinding(<<"alt">>, "d")
          [] a = "cancel_all"    -> HotkeyBinding(<<"alt">>, "c")
          [] a = "search_symbol" -> HotkeyBinding(<<"ctrl">>, "f")
          [] a = "portfolio"     -> HotkeyBinding(<<"alt">>, "p")
          [] a = "orders"        -> HotkeyBinding(<<"alt">>, "o")
          [] a = "close_window"  -> HotkeyBinding(<<"alt">>, "f4")
          [] a = "refresh"       -> HotkeyBinding(<<>>, "f5")
          [] OTHER               -> NoBinding]

\* HotkeyBinding.to_sequence
to_sequence(binding) == binding.modifiers \o <<binding.key>>

-----------------------------------------------------------------------------
(* Collaborator calls and the faults injected into them *)

\* The highest collaborator-call position at which a call is made to fail.
MaxFaultAt == 13

\* A fault plan: the at-th collaborator call of the execute raises (0: no
\* call raises); with sticky, every later call raises as well.
Faults ==
    {[at |-> 0, sticky |-> FALSE]}
      \cup [at : 1..MaxFaultAt, sticky : BOOLEAN]

Faulty(n, fault) ==
    /\ fault.at > 0
    /\ \/ n = fault.at
       \/ fault.sticky /\ n > fault.at

\* Steps of an action's try block: a call through the hotkey table, a direct
\* keyboard or mouse call, or a Python-level error (an IndexError).
HotkeyStep(action) == [kind |-> "hotkeys", call |-> action, keys |-> <<>>]
KeyboardStep(call, keys) == [kind |-> "keyboard", call |-> call, keys |-> keys]
MouseStep(call) == [kind |-> "mouse", call |-> call, keys |-> <<>>]
ErrorStep(what) == [kind |-> "error", call |-> what, keys |-> <<>>]

InputEvent(dev, call, keys, via) ==
    [dev |-> dev, call |-> call, keys |-> keys, via |-> via]

\* What running a block of steps gives: the input sent, whether an exception
\* left the block (and its text), the collaborator calls made so far, and
\* whether a collaborator call raised to the action (faulted).
Ran(sent, raised, error, calls, faulted) ==
    [sent |-> sent, raised |-> raised, error |-> error, calls |-> calls,
     faulted |-> faulted]

RECURSIVE RunSteps(_, _, _, _)
\* Runs `steps` in order after `n` collaborator calls.  NTWSHotkeys.execute
\* (hotkeys.py:183-194) sends nothing for an unbound action and catches a
\* failing keyboard.hotkey, returning False, which no action looks at; a
\* direct keyboard or mouse call that raises ends the block.
RunSteps(steps, n, fault, bind) ==
    IF steps = <<>>
    THEN Ran(<<>>, FALSE, NoneV, n, FALSE)
    ELSE LET s == Head(steps) IN
         IF s.kind = "error"
         THEN Ran(<<>>, TRUE, s.call, n, FALSE)
         ELSE IF s.kind = "hotkeys"
         THEN IF ~bind[s.call].bound
              THEN RunSteps(Tail(steps), n, fault, bind)
              ELSE LET rest == RunSteps(Tail(steps), n + 1, fault, bind) IN
                   IF Faulty(n + 1, fault)
                   THEN rest
                   ELSE [rest EXCEPT !.sent =
                           <<InputEvent("keyboard", "hotkey",
                                        to_sequence(bind[s.call]), s.call)>> \o @]
         ELSE IF Faulty(n + 1, fault)
              THEN Ran(<<>>, TRUE, s.kind \o " call failed", n + 1, TRUE)
              ELSE LET rest == RunSteps(Tail(steps), n + 1, fault, bind) IN
                   [rest EXCEPT !.sent =
                       <<InputEvent(s.kind, s.call, s.keys, "direct")>> \o @]

\* What an execute call gives its caller: an ActionResult, or an exception
\* (raised), with the input it sent on the way.
Exec(raised, result, sent, calls, faulted) ==
    [raised |-> raised, result |-> result, sent |-> sent, calls |-> calls,
     faulted |-> faulted]

\* `try: <steps>; return ok  except Exception as e: return fail(str(e))`
TryBlock(steps, okMessage, failMessage, n, fault, bind) ==
    LET r == RunSteps(steps, n, fault, bind) IN
    IF r.raised
    THEN Exec(FALSE, ActionResultFail(r.error, failMessage, <<>>), r.sent, r.calls, r.faulted)
    ELSE Exec(FALSE, ActionResultOk(okMessage, <<>>), r.sent, r.calls, r.faulted)

\* A failed validation: `return ActionResult.fail(error=error)`
Rejected(error, n) ==
    Exec(FALSE, ActionResultFail(error, "Failed", <<>>), <<>>, n, FALSE)

-----------------------------------------------------------------------------
(* Order actions (src/actions/order.py) *)

max_order_quantity == 1000
max_order_value == 100000
MaxSymbolLen == 10

NoPrice == [has |-> FALSE, v |-> 0]
Price(v) == [has |-> TRUE, v |-> v]

OrderSymbols == {"", "AAPL", "TOOLONGSYMBOL"}
OrderQuantities == {0, 100, 1000, 1001}
OrderTypes == {"MKT", "LMT", "STP", "STP_LMT"}
LimitPrices == {NoPrice, Price(0), Price(150)}
StopPrices == {NoPrice, Price(140)}

OrderParamsSet ==
    [symbol : OrderSymbols, side : {"BUY", "SELL"}, quantity : OrderQuantities,
     order_type : OrderTypes, limit_price : LimitPrices, stop_price : StopPrices]

\* OrderParams.validate
OrderParamsValidate(p) ==
    IF p.symbol = "" \/ Len(p.symbol) > MaxSymbolLen THEN "Invalid symbol"
    ELSE IF p.quantity <= 0 THEN "Quantity must be positive"
    ELSE IF p.order_type = "LMT" /\ ~p.limit_price.has
         THEN "Limit price required for LMT orders"
    ELSE IF p.order_type \in {"STP", "STP_LMT"} /\ ~p.stop_price.has
         THEN "Stop price required for stop orders"
    ELSE IF p.limit_price.has /\ p.limit_price.v <= 0
         THEN "Limit price must be positive"
    ELSE IF p.stop_price.has /\ p.stop_price.v <= 0
         THEN "Stop price must be positive"
    ELSE NoneV

\* f"{limit_price:.2f}" of a whole-dollar amount
FormatPrice(v) == ToString(v) \o ".00"

\* validate without the order-value check of lines 90-94
CreateOrderValidate_NoValueLimit(hasParams, p) ==
    IF ~hasParams THEN "Order params required"
    ELSE IF OrderParamsValidate(p) # NoneV THEN OrderParamsValidate(p)
    ELSE IF p.quantity > max_order_quantity
         THEN "Quantity " \o ToString(p.quantity) \o " exceeds max "
                 \o ToString(max_order_quantity)
    ELSE NoneV

\* CreateOrderAction.validate; hasParams is `params is not None`.
CreateOrderValidate(hasParams, p) ==
    IF ~hasParams THEN "Order params required"
    ELSE IF OrderParamsValidate(p) # NoneV THEN OrderParamsValidate(p)
    ELSE IF p.quantity > max_order_quantity
         THEN "Quantity " \o ToString(p.quantity) \o " exceeds max "
                 \o ToString(max_order_quantity)
    ELSE IF p.limit_price.has /\ p.limit_price.v # 0
            /\ p.quantity * p.limit_price.v > max_order_value
         THEN "Order value $" \o FormatPrice(p.quantity * p.limit_price.v)
                 \o " exceeds max $" \o FormatPrice(max_order_value)
    ELSE NoneV

TransmitSteps_Always(transmit) == <<HotkeyStep("transmit")>>

\* order.py:172-177  `if transmit: ... self.hotkeys.transmit()`
TransmitSteps(transmit) ==
    IF transmit THEN <<HotkeyStep("transmit")>> ELSE <<>>

\* The try block of CreateOrderAction.execute (order.py:142-177).
CreateOrderSteps(p, transmit) ==
    <<HotkeyStep("search_symbol"),
      KeyboardStep("type_text", <<p.symbol>>),
      KeyboardStep("press", <<"enter">>),
      HotkeyStep(IF p.side = "BUY" THEN "buy" ELSE "sell"),
      KeyboardStep("hotkey", <<"ctrl", "a">>),
      KeyboardStep("type_text", <<ToString(p.quantity)>>),
      KeyboardStep("press", <<"tab">>)>>
    \o (IF p.order_type \in {"LMT", "STP_LMT"} /\ p.limit_price.has /\ p.limit_price.v # 0
        THEN <<KeyboardStep("hotkey", <<"ctrl", "a">>),
               KeyboardStep("type_text", <<FormatPrice(p.limit_price.v)>>),
               KeyboardStep("press", <<"tab">>)>>
        ELSE <<>>)
    \o TransmitSteps(transmit)

CreateOrderExecute_NoValidation(hasParams, p, transmit, n, fault, bind) ==
    TryBlock(CreateOrderSteps(p, transmit), "Order created",
             "Order creation failed", n, fault, bind)

\* CreateOrderAction.execute
CreateOrderExecute(hasParams, p, transmit, n, fault, bind) ==
    IF CreateOrderValidate(hasParams, p) # NoneV
    THEN Rejected(CreateOrderValidate(hasParams, p), n)
    ELSE TryBlock(CreateOrderSteps(p, transmit), "Order created",
                  "Order creation failed", n, fault, bind)

\* TransmitOrderAction.execute
TransmitOrderExecute(confirm, n, fault, bind) ==
    TryBlock(<<HotkeyStep("transmit")>>, "Order transmitted",
             "Transmission failed", n, fault, bind)

\* CancelOrderAction.execute
CancelOrderExecute(cancel_all, n, fault, bind) ==
    TryBlock(<<HotkeyStep(IF cancel_all THEN "cancel_all" ELSE "cancel")>>,
             IF cancel_all THEN "All orders cancelled" ELSE "Order cancelled",
             "Cancellation failed", n, fault, bind)

-----------------------------------------------------------------------------
(* Navigation and chart actions (src/actions/navigation.py, chart.py) *)

Symbols == {"", "AAPL", "aapl", "TOOLONGSYMBOL"}

\* str.upper on the symbols of the model
Upper(s) == IF s = "aapl" THEN "AAPL" ELSE s

\* SearchSymbolAction.validate and OpenChartAction.validate (the same code)
SymbolValidate(symbol) ==
    IF symbol = "" THEN "Symbol required"
    ELSE IF Len(symbol) > MaxSymbolLen THEN "Symbol too long"
    ELSE NoneV

\* The try block of SearchSymbolAction.execute
SearchSymbolSteps(symbol, select) ==
    <<HotkeyStep("search_symbol"),
      KeyboardStep("hotkey", <<"ctrl", "a">>),
      KeyboardStep("type_text", <<Upper(symbol)>>)>>
    \o (IF select THEN <<KeyboardStep("press", <<"enter">>)>> ELSE <<>>)

\* SearchSymbolAction.execute
SearchSymbolExecute(symbol, select, n, fault, bind) ==
    IF SymbolValidate(symbol) # NoneV
    THEN Rejected(SymbolValidate(symbol), n)
    ELSE TryBlock(SearchSymbolSteps(symbol, select), "Symbol searched",
                  "Search failed", n, fault, bind)

\* The try block of OpenChartAction.execute
OpenChartSteps(symbol) ==
    <<HotkeyStep("search_symbol"),
      KeyboardStep("type_text", <<Upper(symbol)>>),
      KeyboardStep("press", <<"enter">>),
      MouseStep("right_click"),
      KeyboardStep("press", <<"c">>)>>

\* OpenChartAction.execute
OpenChartExecute(symbol, n, fault, bind) ==
    IF SymbolValidate(symbol) # NoneV
    THEN Rejected(SymbolValidate(symbol), n)
    ELSE TryBlock(OpenChartSteps(symbol), "Chart opened",
                  "Failed to open chart", n, fault, bind)

\* ChangeTimeframeAction.TIMEFRAME_MAP (its keys)
TIMEFRAME_MAP ==
    {"1m", "5m", "15m", "30m", "1h", "1H", "4h", "4H", "1d", "1D", "1w", "1W", "1M"}

Timeframes == {"", "1D", "2D"}

\* ChangeTimeframeAction.validate
TimeframeValidate(timeframe) ==
    IF timeframe = "" THEN "Timeframe required"
    ELSE IF timeframe \notin TIMEFRAME_MAP THEN "Invalid timeframe"
    ELSE NoneV

\* ChangeTimeframeAction.execute: a placeholder that sends nothing.
ChangeTimeframeExecute(timeframe, n, fault, bind) ==
    IF TimeframeValidate(timeframe) # NoneV
    THEN Rejected(TimeframeValidate(timeframe), n)
    ELSE TryBlock(<<>>, "Timeframe changed", "Failed to change timeframe",
                  n, fault, bind)

\* item[0].lower() for the menu items of the model
FirstLower(item) ==
    CASE item \in {"View"} -> "v"
      [] item \in {"Portfolio"} -> "p"
      [] item \in {"Orders", "Option Scanner"} -> "o"
      [] item \in {"Trades", "Tools"} -> "t"
      [] item \in {"Watchlist"} -> "w"
      [] item \in {"News"} -> "n"
      [] item \in {"Chart"} -> "c"
      [] item \in {"Edit", "Export"} -> "e"
      [] item \in {"Global Configuration"} -> "g"
      [] item \in {"Account", "Account Window"} -> "a"
      [] item \in {"File"} -> "f"
      [] OTHER -> "?"

MenuPaths == {<<>>, <<"File">>, <<"File", "Export">>, <<"File", "">>}

\* The try block of NavigateMenuAction.execute; item[0] of an empty item is
\* an IndexError.
NavigateMenuSteps(menu_path) ==
    <<KeyboardStep("press", <<"alt">>)>>
    \o [i \in 1..Len(menu_path) |->
          IF menu_path[i] = ""
          THEN ErrorStep("string index out of range")
          ELSE KeyboardStep("type_text", <<FirstLower(menu_path[i])>>)]
    \o <<KeyboardStep("press", <<"enter">>)>>

\* NavigateMenuAction.execute; its except block presses Escape before it
\* builds the failed result, and that press is outside any try.
NavigateMenuExecute(menu_path, n, fault, bind) ==
    IF menu_path = <<>>
    THEN Rejected("Menu path required", n)
    ELSE LET r == RunSteps(NavigateMenuSteps(menu_path), n, fault, bind) IN
         IF ~r.raised
         THEN Exec(FALSE, ActionResultOk("Navigated menu", <<>>), r.sent, r.calls, r.faulted)
         ELSE IF Faulty(r.calls + 1, fault)
              THEN Exec(TRUE, ActionResultFail("keyboard call failed", "exception", <<>>),
                        r.sent, r.calls + 1, TRUE)
              ELSE Exec(FALSE, ActionResultFail(r.error, "Menu navigation failed", <<>>),
                        r.sent \o <<InputEvent("keyboard", "press", <<"escape">>, "direct")>>,
                        r.calls + 1, r.faulted)

\* OpenWindowAction.WINDOWS
WINDOWS ==
    [w \in {"portfolio", "orders", "trades", "watchlist", "news", "scanner",
            "chart", "settings", "account"} |->
        CASE w = "portfolio" -> <<"View", "Portfolio">>
          [] w = "orders"    -> <<"View", "Orders">>
          [] w = "trades"    -> <<"View", "Trades">>
          [] w = "watchlist" -> <<"View", "Watchlist">>
          [] w = "news"      -> <<"View", "News">>
          [] w = "scanner"   -> <<"Tools", "Option Scanner">>
          [] w = "chart"     -> <<"View", "Chart">>
          [] w = "settings"  -> <<"Edit", "Global Configuration">>
          [] w = "account"   -> <<"Account", "Account Window">>]

WindowNames == {"", "portfolio", "Orders", "bogus"}

\* str.lower on the window names of the model
Lower(s) == IF s = "Orders" THEN "orders" ELSE s

\* OpenWindowAction.validate
WindowValidate(window_name) ==
    IF window_name = "" THEN "Window name required"
    ELSE IF Lower(window_name) \notin DOMAIN WINDOWS THEN "Unknown window"
    ELSE NoneV

\* OpenWindowAction.execute: the menu navigation runs inside its try block.
OpenWindowExecute(window_name, n, fault, bind) ==
    IF WindowValidate(window_name) # NoneV
    THEN Rejected(WindowValidate(window_name), n)
    ELSE LET nav == NavigateMenuExecute(WINDOWS[Lower(window_name)], n, fault, bind) IN
         IF nav.raised
         THEN Exec(FALSE, ActionResultFail(nav.result.error, "Failed to open window", <<>>),
                   nav.sent, nav.calls, nav.faulted)
         ELSE IF nav.result.success
         THEN Exec(FALSE, ActionResultOk("Opened window", <<>>), nav.sent, nav.calls, nav.faulted)
         ELSE nav

\* RefreshDataAction.execute
RefreshDataExecute(n, fault, bind) ==
    TryBlock(<<HotkeyStep("refresh")>>, "Data refreshed", "Refresh failed",
             n, fault, bind)

-----------------------------------------------------------------------------
(* Portfolio actions (src/actions/portfolio.py) *)

\* A row of ocr.read_table: the engine of this repository, called without
\* columns, gives rows {'values': [...]}; an engine giving keyed rows gives
\* a symbol and a quantity, the quantity possibly not a number.
ValuesRow == [kind |-> "values", symbol |-> "", quantity |-> 0]
PositionRow(symbol, quantity) == [kind |-> "position", symbol |-> symbol, quantity |-> quantity]
GarbledRow(symbol) == [kind |-> "garbled", symbol |-> symbol, quantity |-> 0]

Tables ==
    {<<>>, <<ValuesRow>>, <<PositionRow("AAPL", 100)>>, <<PositionRow("AAPL", -50)>>,
     <<GarbledRow("AAPL"), PositionRow("MSFT", 10)>>}

\* What the screen collaborators give during one call: whether capture_tws
\* returns an image, whether the region 'portfolio_table' is defined, and
\* the rows the OCR engine reads.
Screens == [captureOk : BOOLEAN, region : BOOLEAN, rows : Tables]

Position(symbol, quantity) == [symbol |-> symbol, quantity |-> quantity]

RECURSIVE ParseRows(_)
\* portfolio.py:93-107: a row without a symbol is skipped, one whose
\* quantity is no number raises ValueError and is skipped.
ParseRows(rows) ==
    IF rows = <<>> THEN <<>>
    ELSE LET row == Head(rows) IN
         IF row.kind = "position" /\ row.symbol # ""
         THEN <<Position(row.symbol, row.quantity)>> \o ParseRows(Tail(rows))
         ELSE ParseRows(Tail(rows))

\* GetPortfolioAction.execute
GetPortfolioExecute(screen, n, fault, bind) ==
    LET h == RunSteps(<<HotkeyStep("portfolio")>>, n, fault, bind)
        nCapture == h.calls + 1
        nOcr == nCapture + 1
    IN  IF Faulty(nCapture, fault)
        THEN Exec(FALSE, ActionResultFail("capture call failed", "Portfolio read failed", <<>>),
                  h.sent, nCapture, TRUE)
        ELSE IF ~screen.captureOk
        THEN Exec(FALSE, ActionResultFail("Could not capture screen", "Portfolio read failed", <<>>),
                  h.sent, nCapture, h.faulted)
        ELSE IF ~screen.region
        THEN Exec(FALSE, ActionResultOk("Found positions", <<>>), h.sent, nCapture, h.faulted)
        ELSE IF Faulty(nOcr, fault)
        THEN Exec(FALSE, ActionResultFail("ocr call failed", "Portfolio read failed", <<>>),
                  h.sent, nOcr, TRUE)
        ELSE Exec(FALSE, ActionResultOk("Found positions", ParseRows(screen.rows)),
                  h.sent, nOcr, h.faulted)

\* GetPositionAction.validate
PositionValidate(symbol) ==
    IF symbol = "" THEN "Symbol required" ELSE NoneV

\* The positions whose symbol matches, in list order.
Matching(positions, symbol) ==
    SelectSeq(positions, LAMBDA q : Upper(q.symbol) = Upper(symbol))

\* GetPositionAction.execute
GetPositionExecute(symbol, screen, n, fault, bind) ==
    IF PositionValidate(symbol) # NoneV
    THEN Rejected(PositionValidate(symbol), n)
    ELSE LET pr == GetPortfolioExecute(screen, n, fault, bind) IN
         IF ~pr.result.success
         THEN pr
         ELSE IF Matching(pr.result.data, symbol) # <<>>
         THEN [pr EXCEPT !.result =
                  ActionResultOk("Found position", <<Head(Matching(pr.result.data, symbol))>>)]
         ELSE [pr EXCEPT !.result = ActionResultOk("No position found", <<>>)]

Abs(x) == IF x < 0 THEN -x ELSE x

\* The quantity argument: None (has = FALSE) or a number
NoQuantity == [has |-> FALSE, v |-> 0]
Quantity(v) == [has |-> TRUE, v |-> v]

CloseQuantities == {NoQuantity, Quantity(0), Quantity(30)}

\* `quantity or abs(position.quantity)` (portfolio.py:227): the left
\* operand unless it is None or 0
QuantityOr(quantity, other) ==
    IF quantity.has /\ quantity.v # 0 THEN quantity.v ELSE other

\* ClosePositionAction.execute
ClosePositionExecute(symbol, quantity, order_type, screen, n, fault, bind) ==
    LET gp == GetPositionExecute(symbol, screen, n, fault, bind) IN
    IF ~gp.result.success
    THEN gp
    ELSE IF gp.result.data = <<>>
    THEN [gp EXCEPT !.result = ActionResultFail("No position found", "Close failed", <<>>)]
    ELSE LET position == Head(gp.result.data)
             close_qty == QuantityOr(quantity, Abs(position.quantity))
             close_side == IF position.quantity > 0 THEN "SELL" ELSE "BUY"
             params == [symbol |-> symbol, side |-> close_side, quantity |-> close_qty,
                        order_type |-> order_type, limit_price |-> NoPrice,
                        stop_price |-> NoPrice]
             co == CreateOrderExecute(TRUE, params, FALSE, gp.calls, fault, bind)
         IN  [co EXCEPT !.sent = gp.sent \o @,
                        !.faulted = gp.faulted \/ @]

-----------------------------------------------------------------------------
(* Calls of the concrete actions *)

DefaultParams ==
    [symbol |-> "", side |-> "BUY", quantity |-> 0, order_type |-> "LMT",
     limit_price |-> NoPrice, stop_price |-> NoPrice]

DefaultScreen == [captureOk |-> FALSE, region |-> FALSE, rows |-> <<>>]

NoCall ==
    [action |-> "none", hasParams |-> FALSE, params |-> DefaultParams,
     transmit |-> FALSE, symbol |-> "", flag |-> FALSE, path |-> <<>>,
     window |-> "", timeframe |-> "", quantity |-> NoQuantity, order_type |-> "MKT",
     screen |-> DefaultScreen]

ActionsInit ==
    /\ a_pc = "idle"
    /\ a_call = NoCall
    /\ a_sent = <<>>
    /\ a_result = NoResult
    /\ a_faulted = FALSE

\* The call ends: with the result returned, or with the exception raised.
Ends(call, e) ==
    /\ a_call' = call
    /\ a_pc' = IF e.raised THEN "raised" ELSE "returned"
    /\ a_sent' = e.sent
    /\ a_result' = e.result
    /\ a_faulted' = e.faulted
    /\ UNCHANGED <<compVars, kitVars, findVars, waitVars, ordVars, hkVars, rgVars, cfgVars, retryVars, toolVars>>

\* The transmit argument, False when the caller leaves it out
\* (order.py:101, actions/__init__.py:144, tools.py:265).
TransmitArg(arg) == arg = "true"

CreateOrder ==
    /\ a_pc = "idle"
    /\ \E hasParams \in BOOLEAN, p \in OrderParamsSet,
       arg \in {"absent", "true", "false"}, fault \in Faults :
       /\ hasParams \/ p = DefaultParams
       /\ Ends([NoCall EXCEPT !.action = "create_order", !.hasParams = hasParams,
                              !.params = p, !.transmit = TransmitArg(arg)],
               CreateOrderExecute(hasParams, p, TransmitArg(arg), 0, fault, bindings))

TransmitOrder ==
    /\ a_pc = "idle"
    /\ \E confirm \in BOOLEAN, fault \in Faults :
       Ends([NoCall EXCEPT !.action = "transmit_order", !.flag = confirm],
            TransmitOrderExecute(confirm, 0, fault, bindings))

CancelOrder ==
    /\ a_pc = "idle"
    /\ \E cancel_all \in BOOLEAN, fault \in Faults :
       Ends([NoCall EXCEPT !.action = "cancel_order", !.flag = cancel_all],
            CancelOrderExecute(cancel_all, 0, fault, bindings))

SearchSymbol ==
    /\ a_pc = "idle"
    /\ \E symbol \in Symbols, select \in BOOLEAN, fault \in Faults :
       Ends([NoCall EXCEPT !.action = "search_symbol", !.symbol = symbol, !.flag = select],
            SearchSymbolExecute(symbol, select, 0, fault, bindings))

OpenChart ==
    /\ a_pc = "idle"
    /\ \E symbol \in Symbols, fault \in Faults :
       Ends([NoCall EXCEPT !.action = "open_chart", !.symbol = symbol],
            OpenChartExecute(symbol, 0, fault, bindings))

ChangeTimeframe ==
    /\ a_pc = "idle"
    /\ \E timeframe \in Timeframes, fault \in Faults :
       Ends([NoCall EXCEPT !.action = "change_timeframe", !.timeframe = timeframe],
            ChangeTimeframeExecute(timeframe, 0, fault, bindings))

OpenWindow ==
    /\ a_pc = "idle"
    /\ \E window_name \in WindowNames, fault \in Faults :
       Ends([NoCall EXCEPT !.action = "open_window", !.window = window_name],
            OpenWindowExecute(window_name, 0, fault, bindings))

NavigateMenu ==
    /\ a_pc = "idle"
    /\ \E menu_path \in MenuPaths, fault \in Faults :
       Ends([NoCall EXCEPT !.action = "navigate_menu", !.path = menu_path],
            NavigateMenuExecute(menu_path, 0, fault, bindings))

RefreshData ==
    /\ a_pc = "idle"
    /\ \E fault \in Faults :
       Ends([NoCall EXCEPT !.action = "refresh_data"],
            RefreshDataExecute(0, fault, bindings))

GetPortfolio ==
    /\ a_pc = "idle"
    /\ \E screen \in Screens, fault \in Faults :
       Ends([NoCall EXCEPT !.action = "get_portfolio", !.screen = screen],
            GetPortfolioExecute(screen, 0, fault, bindings))

GetPosition ==
    /\ a_pc = "idle"
    /\ \E symbol \in Symbols, screen \in Screens, fault \in Faults :
       Ends([NoCall EXCEPT !.action = "get_position", !.symbol = symbol, !.screen = screen],
            GetPositionExecute(symbol, screen, 0, fault, bindings))

ClosePosition ==
    /\ a_pc = "idle"
    /\ \E symbol \in Symbols, quantity \in CloseQuantities, order_type \in OrderTypes,
       screen \in Screens, fault \in Faults :
       Ends([NoCall EXCEPT !.action = "close_position", !.symbol = symbol,
                           !.quantity = quantity, !.order_type = order_type,
                           !.screen = screen],
            ClosePositionExecute(symbol, quantity, order_type, screen, 0, fault, bindings))

\* The caller takes the result (or the exception).
ActionDone ==
    /\ a_pc \in {"returned", "raised"}
    /\ a_pc' = "idle"
    /\ a_call' = NoCall
    /\ a_sent' = <<>>
    /\ a_result' = NoResult
    /\ a_faulted' = FALSE
    /\ UNCHANGED <<compVars, kitVars, findVars, waitVars, ordVars, hkVars, rgVars, cfgVars, retryVars, toolVars>>

ActionsNext ==
    \/ CreateOrder
    \/ TransmitOrder
    \/ CancelOrder
    \/ SearchSymbol
    \/ OpenChart
    \/ ChangeTimeframe
    \/ OpenWindow
    \/ NavigateMenu
    \/ RefreshData
    \/ GetPortfolio
    \/ GetPosition
    \/ ClosePosition
    \/ ActionDone

-----------------------------------------------------------------------------
(* NTWSToolkit: connect and the paper-trading check (src/__init__.py) *)

ToolkitInit ==
    /\ bindings = DEFAULT_HOTKEYS
    /\ paper_trading_only \in BOOLEAN
    /\ t_window = FALSE
    /\ t_connect = "never"
    /\ t_paper = FALSE

\* What reading jts.ini gives: tradingMode=p, another mode, no such file,
\* or a file that cannot be read.
JtsIni == {"paper", "live", "missing", "unreadable"}

\* NTWSToolkit._verify_paper_trading, for a file that can be read or is missing
verify_paper_trading(ini) == ini = "paper"

\* NTWSToolkit.connect
Connect ==
    /\ a_pc = "idle"
    /\ \E found \in BOOLEAN, ini \in JtsIni :
          IF ~found
          THEN /\ t_connect' = "false"
               /\ UNCHANGED <<t_window, t_paper>>
          ELSE /\ t_window' = TRUE
               /\ IF ~paper_trading_only
                  THEN t_connect' = "true" /\ t_paper' = FALSE
                  ELSE IF ini = "unreadable"
                  THEN t_connect' = "raised" /\ t_paper' = FALSE
                  ELSE /\ t_connect' = IF verify_paper_trading(ini) THEN "true" ELSE "false"
                       /\ t_paper' = verify_paper_trading(ini)
    /\ UNCHANGED <<bindings, paper_trading_only, compVars, actVars, findVars, waitVars, ordVars, hkVars, rgVars, cfgVars, retryVars, toolVars>>

\* The order tools of the MCP surface (tools.py:258-273), which go through
\* ActionRegistry.create_order / transmit_order.
ToolOrders ==
    {[symbol |-> "AAPL", side |-> side, quantity |-> q, order_type |-> "LMT",
      limit_price |-> Price(150), stop_price |-> NoPrice] :
        side \in {"BUY", "SELL"}, q \in {100, 1001}}

ToolCreateOrder ==
    /\ a_pc = "idle"
    /\ \E p \in ToolOrders, arg \in {"absent", "true", "false"} :
       Ends([NoCall EXCEPT !.action = "create_order", !.hasParams = TRUE,
                           !.params = p, !.transmit = TransmitArg(arg)],
            CreateOrderExecute(TRUE, p, TransmitArg(arg), 0, [at |-> 0, sticky |-> FALSE], bindings))

ToolTransmitOrder ==
    /\ a_pc = "idle"
    /\ \E confirm \in BOOLEAN :
       Ends([NoCall EXCEPT !.action = "transmit_order", !.flag = confirm],
            TransmitOrderExecute(confirm, 0, [at |-> 0, sticky |-> FALSE], bindings))

ToolkitNext ==
    \/ Connect
    \/ ToolCreateOrder
    \/ ToolTransmitOrder
    \/ ActionDone

-----------------------------------------------------------------------------
(* ElementFinder (src/core/element.py) *)

\* Elements constructed in one run of the model, and register_strategy
\* calls made in it.
MaxElements == 2
MaxRegistrations == 1

FindStrategy == {"uia", "ocr", "image", "position", "hybrid"}

\* The strategies the specs of the model ask for: the two with a default
\* resolver and one without (IMAGE and HYBRID have none either and go the
\* way OCR goes).
SpecStrategies == {"uia", "ocr", "position"}

Region1 == <<10, 20, 30, 40>>
Region2 == <<50, 60, 70, 80>>
CustomRect == <<1, 2, 3, 4>>
NoRect == <<0, 0, 0, 0>>

\* ElementSpec: the name (the empty name stands for None as well: __str__
\* and _find_by_uia test `if self.name`), the region and the strategy; the
\* other attributes are left at None. The specs of the model give a region
\* with the POSITION strategy only.
ElementSpecs ==
    [name : {"", "Buy"}, hasRegion : {FALSE}, region : {NoRect},
     strategy : SpecStrategies]
    \cup [name : {"", "Buy"}, hasRegion : {TRUE}, region : {Region1, Region2},
          strategy : {"position"}]

\* ElementSpec.__str__: name, automation_id, control_type and text_pattern
\* only; the region and the strategy are not part of it.
SpecStr(spec) ==
    IF spec.name # ""
    THEN "ElementSpec(name='" \o spec.name \o "')"
    ELSE "ElementSpec()"

NoElement == [id |-> 0, kind |-> "none", name |-> "", rect |-> NoRect]

\* Element(uia_element=child) / Element(rect=...), with its identity
ElementUia(id, name) == [id |-> id, kind |-> "uia", name |-> name, rect |-> NoRect]
ElementRect(id, rect) == [id |-> id, kind |-> "rect", name |-> "", rect |-> rect]

\* Element.is_visible: the accessibility node's answer, True when asking it
\* fails, True for an element without a node.
is_visible(element, answer) ==
    IF element.kind = "uia" /\ answer = "no" THEN FALSE ELSE TRUE

\* What the accessibility provider does during one call: whether the main
\* window is attached, what the child lookup gives, and what a cached
\* node's is_visible gives ("fails": the node is stale and the call raises).
Providers ==
    [main_window : BOOLEAN, lookup : {"found", "absent", "fails"},
     visible : {"yes", "no", "fails"}]

\* The provider's answers a call can depend on: is_visible is asked only of
\* a cached element that has a node, the child lookup is made only once the
\* main window is found attached.
Asked(askVisible, askLookup) ==
    {p \in Providers :
        /\ askVisible \/ p.visible = "yes"
        /\ (askLookup /\ p.main_window) \/ p.lookup = "absent"
        /\ askLookup \/ ~p.main_window}

\* The resolvers a strategy can have: the two built in, or one a caller
\* registered, which returns an Element, returns None, or raises.
CustomResolvers == {"custom_found", "custom_absent", "custom_raises"}

Resolved(raised, element) == [raised |-> raised, element |-> element]

\* ElementFinder._find_by_uia
find_by_uia(spec, provider, id) ==
    IF ~provider.main_window THEN NoElement
    ELSE IF spec.name = "" THEN NoElement
    ELSE IF provider.lookup = "found" THEN ElementUia(id, spec.name)
    ELSE NoElement

\* ElementFinder._find_by_position
find_by_position(spec, id) ==
    IF spec.hasRegion THEN ElementRect(id, spec.region) ELSE NoElement

\* strategy_fn(spec)
Resolve(resolver, spec, provider, id) ==
    CASE resolver = "uia"           -> Resolved(FALSE, find_by_uia(spec, provider, id))
      [] resolver = "position"      -> Resolved(FALSE, find_by_position(spec, id))
      [] resolver = "custom_found"  -> Resolved(FALSE, ElementRect(id, CustomRect))
      [] resolver = "custom_absent" -> Resolved(FALSE, NoElement)
      [] resolver = "custom_raises" -> Resolved(TRUE, NoElement)

CachePut(cache, key, element) ==
    [k \in DOMAIN cache \cup {key} |-> IF k = key THEN element ELSE cache[k]]

\* What find gives: an Element or NoElement (None), or an exception; the
\* cache afterwards; whether a resolver was invoked; whether the cache was
\* looked up.
Found(raised, element, cache, resolved, looked) ==
    [raised |-> raised, element |-> element, cache |-> cache,
     resolved |-> resolved, looked |-> looked]

CacheHit_IgnoringVisibility(spec, use_cache, cache, provider) ==
    use_cache /\ SpecStr(spec) \in DOMAIN cache

\* element.py:324-327: the cache answers when it is enabled, holds the key
\* and the cached element reports visible.
CacheHit(spec, use_cache, cache, provider) ==
    /\ use_cache
    /\ SpecStr(spec) \in DOMAIN cache
    /\ is_visible(cache[SpecStr(spec)], provider.visible)

Find_CacheAlways(spec, use_cache, cache, strategies, provider, id) ==
    LET cache_key == SpecStr(spec)
        looked == cache_key \in DOMAIN cache
    IN  IF CacheHit(spec, TRUE, cache, provider)
        THEN Found(FALSE, cache[cache_key], cache, FALSE, looked)
        ELSE IF strategies[spec.strategy] = "none"
        THEN Found(FALSE, NoElement, cache, FALSE, looked)
        ELSE LET r == Resolve(strategies[spec.strategy], spec, provider, id) IN
             IF r.raised
             THEN Found(TRUE, NoElement, cache, TRUE, looked)
             ELSE IF r.element.id # 0
             THEN Found(FALSE, r.element, CachePut(cache, cache_key, r.element), TRUE, looked)
             ELSE Found(FALSE, r.element, cache, TRUE, looked)

\* ElementFinder.find
Find(spec, use_cache, cache, strategies, provider, id) ==
    LET cache_key == SpecStr(spec)
        looked == use_cache /\ cache_key \in DOMAIN cache
    IN  IF CacheHit(spec, use_cache, cache, provider)
        THEN Found(FALSE, cache[cache_key], cache, FALSE, looked)
        ELSE IF strategies[spec.strategy] = "none"
        THEN Found(FALSE, NoElement, cache, FALSE, looked)
        ELSE LET r == Resolve(strategies[spec.strategy], spec, provider, id) IN
             IF r.raised
             THEN Found(TRUE, NoElement, cache, TRUE, looked)
             ELSE IF r.element.id # 0 /\ use_cache
             THEN Found(FALSE, r.element, CachePut(cache, cache_key, r.element), TRUE, looked)
             ELSE Found(FALSE, r.element, cache, TRUE, looked)

NoSpec == [name |-> "", hasRegion |-> FALSE, region |-> NoRect, strategy |-> "uia"]

\* A call on the finder: the operation, its arguments, how it ended and
\* what it returned, whether a resolver was invoked, whether the cache held
\* the key and what the cached element's is_visible said then; and, for a
\* find with use_cache=True, whether the call before it was a find with
\* use_cache=True of a spec of the same string form that returned an
\* Element (again), and whether it returned that very Element (same).
NoOp ==
    [op |-> "none", spec |-> NoSpec, use_cache |-> FALSE,
     outcome |-> "returned", element |-> NoElement, count |-> 0,
     resolved |-> FALSE, looked |-> FALSE, visible |-> TRUE,
     again |-> FALSE, same |-> FALSE]

FinderInit ==
    /\ f_cache = [k \in {} |-> NoElement]
    /\ f_strategies = [st \in FindStrategy |->
                          CASE st = "uia" -> "uia"
                            [] st = "position" -> "position"
                            [] OTHER -> "none"]
    /\ f_next = 1
    /\ f_registered = 0
    /\ f_op = NoOp

\* Records a finished call; an Element was constructed when the identity
\* f_next was handed out.
FinderCalled(op, found) ==
    /\ f_op' = op
    /\ f_cache' = found.cache
    /\ f_next' = IF found.element.id = f_next THEN f_next + 1 ELSE f_next
    /\ UNCHANGED <<f_strategies, f_registered, compVars, actVars, kitVars, waitVars, ordVars, hkVars, rgVars, cfgVars, retryVars, toolVars>>

\* The record of a find or exists call
FindOp(op, spec, use_cache, provider, found) ==
    [NoOp EXCEPT !.op = op, !.spec = spec, !.use_cache = use_cache,
                 !.outcome = IF found.raised THEN "raised" ELSE "returned",
                 !.element = found.element,
                 !.resolved = found.resolved, !.looked = found.looked,
                 !.visible = IF found.looked
                             THEN is_visible(f_cache[SpecStr(spec)], provider.visible)
                             ELSE TRUE,
                 !.again = /\ op = "find" /\ use_cache
                           /\ f_op.op = "find" /\ f_op.use_cache
                           /\ f_op.outcome = "returned" /\ f_op.element.id # 0
                           /\ SpecStr(f_op.spec) = SpecStr(spec),
                 !.same = /\ op = "find" /\ f_op.op = "find"
                          /\ ~found.raised /\ found.element.id # 0
                          /\ found.element = f_op.element]

\* finder.find(spec, use_cache=...)
FinderFind ==
    /\ f_next <= MaxElements
    /\ \E spec \in ElementSpecs, use_cache \in BOOLEAN :
          \E provider \in Asked(/\ use_cache
                                 /\ SpecStr(spec) \in DOMAIN f_cache
                                 /\ f_cache[SpecStr(spec)].kind = "uia",
                                 f_strategies[spec.strategy] = "uia") :
             LET found == Find(spec, use_cache, f_cache, f_strategies, provider, f_next) IN
             FinderCalled(FindOp("find", spec, use_cache, provider, found), found)

\* finder.exists(spec): `self.find(spec, timeout=1, use_cache=False) is not None`
FinderExists ==
    /\ f_next <= MaxElements
    /\ \E spec \in ElementSpecs :
          \E provider \in Asked(FALSE, f_strategies[spec.strategy] = "uia") :
          LET found == Find(spec, FALSE, f_cache, f_strategies, provider, f_next) IN
          FinderCalled(FindOp("exists", spec, FALSE, provider, found), found)

\* The number of Elements find_all builds for a spec (element.py:353-367):
\* none unless the strategy is UIA, the main window is attached, the spec
\* has a criterion and descendants() answers; then one per matching child.
FindAllCount(spec, provider) ==
    IF spec.strategy = "uia" /\ provider.main_window /\ spec.name # ""
       /\ provider.lookup = "found"
    THEN 1 ELSE 0

\* finder.find_all(spec); the resolvers are not consulted.
FinderFindAll ==
    /\ f_next <= MaxElements
    /\ \E spec \in ElementSpecs : \E provider \in Asked(FALSE, spec.strategy = "uia") :
                /\ f_op' = [NoOp EXCEPT !.op = "find_all", !.spec = spec,
                         !.count = FindAllCount(spec, provider)]
          /\ f_next' = f_next + FindAllCount(spec, provider)
          /\ UNCHANGED <<f_cache, f_strategies, f_registered, compVars, actVars, kitVars, waitVars, ordVars, hkVars, rgVars, cfgVars, retryVars, toolVars>>

\* finder.register_strategy(strategy, finder)
FinderRegisterStrategy ==
    /\ f_registered < MaxRegistrations
    /\ \E st \in SpecStrategies, resolver \in CustomResolvers :
          /\ f_strategies' = [f_strategies EXCEPT ![st] = resolver]
          /\ f_op' = [NoOp EXCEPT !.op = "register_strategy",
                                  !.spec = [NoSpec EXCEPT !.strategy = st]]
    /\ f_registered' = f_registered + 1
    /\ UNCHANGED <<f_cache, f_next, compVars, actVars, kitVars, waitVars, ordVars, hkVars, rgVars, cfgVars, retryVars, toolVars>>

\* finder.clear_cache()
FinderClearCache ==
    /\ f_cache # [k \in {} |-> NoElement]
    /\ f_cache' = [k \in {} |-> NoElement]
    /\ f_op' = [NoOp EXCEPT !.op = "clear_cache"]
    /\ UNCHANGED <<f_strategies, f_next, f_registered, compVars, actVars, kitVars, waitVars, ordVars, hkVars, rgVars, cfgVars, retryVars, toolVars>>

FinderNext ==
    \/ FinderFind
    \/ FinderExists
    \/ FinderFindAll
    \/ FinderRegisterStrategy
    \/ FinderClearCache

-----------------------------------------------------------------------------
(* ElementFinder.wait_for (src/core/element.py) *)

\* ElementSpec.timeout, in seconds
spec_timeout == 10
\* time.sleep(0.5), in tenths of a second
PollInterval == 5

\* The absent polls before the element shows, at most
MaxAbsent == 4

Tenths(seconds) == seconds * 10

\* The timeout argument: None or a number of seconds
NoTimeout == [has |-> FALSE, v |-> 0]
Timeout(v) == [has |-> TRUE, v |-> v]
TimeoutsPassed == {NoTimeout} \cup {Timeout(v) : v \in {0, 1, 2, 5}}

\* The time one find takes, in tenths of a second
FindTimes == {0, 1}

\* The provider during a wait: the lookup gives absent for the first
\* `absent` polls and `then` from there on.
Plans == [absent : 0..MaxAbsent, then : {"found", "absent", "fails"}]

WaitSpecs == {spec \in ElementSpecs : spec.strategy = "uia" /\ spec.name # ""}

PlannedProvider(plan, poll) ==
    [main_window |-> TRUE,
     lookup |-> IF poll <= plan.absent THEN "absent" ELSE plan.then,
     visible |-> "yes"]

NoError == [kind |-> "none", operation |-> "", timeout |-> 0, message |-> ""]

\* TimeoutError(operation, timeout) (exceptions.py:68-74)
TimeoutError(operation, timeout) ==
    [kind |-> "TimeoutError", operation |-> operation, timeout |-> timeout,
     message |-> IF timeout # 0
                 THEN "Timeout waiting for: " \o operation
                         \o " (timeout: " \o ToString(timeout) \o "s)"
                 ELSE "Timeout waiting for: " \o operation]

NoWaitResult == [element |-> NoElement, error |-> NoError]

\* `timeout or spec.timeout`: a None or zero argument gives spec.timeout
TimeoutOr(passed, spec) ==
    IF passed.has /\ passed.v # 0 THEN passed.v ELSE spec_timeout

WaitInit ==
    /\ w_pc = "idle"
    /\ w_spec = NoSpec
    /\ w_passed = NoTimeout
    /\ w_timeout = 0
    /\ w_elapsed = 0
    /\ w_polls = 0
    /\ w_plan = [absent |-> 0, then |-> "absent"]
    /\ w_result = NoWaitResult

\* finder.wait_for(spec, timeout): lines 392-393
WaitFor ==
    /\ w_pc = "idle"
    /\ f_next <= MaxElements
    /\ \E spec \in WaitSpecs, passed \in TimeoutsPassed, plan \in Plans :
          /\ w_spec' = spec
          /\ w_passed' = passed
          /\ w_plan' = plan
          /\ w_timeout' = TimeoutOr(passed, spec)
    /\ w_pc' = "loop"
    /\ w_elapsed' = 0
    /\ w_polls' = 0
    /\ w_result' = NoWaitResult
    /\ UNCHANGED <<compVars, actVars, kitVars, findVars, ordVars, hkVars, rgVars, cfgVars, retryVars, toolVars>>

\* One turn of the loop with the deadline ahead: find(spec, use_cache=False),
\* return the Element when there is one, sleep otherwise.
WaitPoll ==
    /\ w_pc = "loop"
    /\ w_elapsed < Tenths(w_timeout)
    /\ \E took \in FindTimes :
          LET found == Find(w_spec, FALSE, f_cache, f_strategies,
                            PlannedProvider(w_plan, w_polls + 1), f_next)
          IN  /\ w_polls' = w_polls + 1
              /\ f_cache' = found.cache
              /\ IF found.element.id # 0
                 THEN /\ w_pc' = "returned"
                      /\ w_result' = [NoWaitResult EXCEPT !.element = found.element]
                      /\ w_elapsed' = w_elapsed + took
                      /\ f_next' = f_next + 1
                 ELSE /\ w_elapsed' = w_elapsed + took + PollInterval
                      /\ UNCHANGED <<w_pc, w_result, f_next>>
    /\ UNCHANGED <<w_spec, w_passed, w_timeout, w_plan, f_strategies, f_registered, f_op,
                   compVars, actVars, kitVars, ordVars, hkVars, rgVars, cfgVars, retryVars, toolVars>>

\* The loop condition fails: raise TimeoutError(f"Element {spec}", timeout)
WaitTimeout ==
    /\ w_pc = "loop"
    /\ w_elapsed >= Tenths(w_timeout)
    /\ w_pc' = "raised"
    /\ w_result' = [NoWaitResult EXCEPT
                       !.error = TimeoutError("Element " \o SpecStr(w_spec), w_timeout)]
    /\ UNCHANGED <<w_spec, w_passed, w_timeout, w_elapsed, w_polls, w_plan,
                   compVars, actVars, kitVars, findVars, ordVars, hkVars, rgVars, cfgVars, retryVars, toolVars>>

\* The caller has the Element or the exception; the next wait can start.
WaitDone ==
    /\ w_pc \in {"returned", "raised"}
    /\ w_pc' = "idle"
    /\ w_spec' = NoSpec
    /\ w_passed' = NoTimeout
    /\ w_timeout' = 0
    /\ w_elapsed' = 0
    /\ w_polls' = 0
    /\ w_plan' = [absent |-> 0, then |-> "absent"]
    /\ w_result' = NoWaitResult
    /\ UNCHANGED <<compVars, actVars, kitVars, findVars, ordVars, hkVars, rgVars, cfgVars, retryVars, toolVars>>

WaitNext ==
    \/ WaitFor
    \/ WaitPoll
    \/ WaitTimeout
    \/ WaitDone

-----------------------------------------------------------------------------
(* Calls of OrderParams.validate (src/actions/order.py) *)

\* A price field: None, or a number that is negative, zero or positive
PriceFields == {NoPrice, Price(-5), Price(0), Price(150)}

\* The OrderParams validate is called on
ValidatedParams ==
    [symbol : OrderSymbols, side : {"BUY", "SELL"}, quantity : {-1, 0, 100},
     order_type : OrderTypes, limit_price : PriceFields, stop_price : PriceFields]

OrderInit ==
    /\ o_pc = "idle"
    /\ o_params = DefaultParams
    /\ o_error = NoneV

\* params.validate()
OrderValidate ==
    /\ o_pc = "idle"
    /\ \E p \in ValidatedParams :
          /\ o_params' = p
          /\ o_error' = OrderParamsValidate(p)
    /\ o_pc' = "returned"
    /\ UNCHANGED <<compVars, actVars, kitVars, findVars, waitVars, hkVars, rgVars, cfgVars, retryVars, toolVars>>

\* The caller has the answer; the next call can start.
OrderValidated ==
    /\ o_pc = "returned"
    /\ o_pc' = "idle"
    /\ o_params' = DefaultParams
    /\ o_error' = NoneV
    /\ UNCHANGED <<compVars, actVars, kitVars, findVars, waitVars, hkVars, rgVars, cfgVars, retryVars, toolVars>>

OrderNext ==
    \/ OrderValidate
    \/ OrderValidated

-----------------------------------------------------------------------------
(* Keyboard.hotkey (src/input/keyboard.py) *)

\* The names hotkey() takes for modifiers (keyboard.py:266)
ModifierNames == {"ctrl", "control", "alt", "menu", "shift", "win", "windows"}

\* Keyboard.VK_CODES, for the key names of the model
VK_CODES ==
    [k \in ModifierNames \cup {"b", "s", "t", "d", "c", "f", "p", "o", "f4", "f5"} |->
        CASE k \in {"ctrl", "control"} -> 17
          [] k \in {"alt", "menu"}     -> 18
          [] k = "shift"               -> 16
          [] k \in {"win", "windows"}  -> 91
          [] k = "b" -> 66
          [] k = "s" -> 83
          [] k = "t" -> 84
          [] k = "d" -> 68
          [] k = "c" -> 67
          [] k = "f" -> 70
          [] k = "p" -> 80
          [] k = "o" -> 79
          [] k = "f4" -> 115
          [] k = "f5" -> 116]

\* str.lower on the key names of the model
KeyLower(key) ==
    CASE key = "B" -> "b"
      [] key = "Ctrl" -> "ctrl"
      [] OTHER -> key

\* One _send_input_key call: a key going down or up
KeyEvent(vk, key_up) == [vk |-> vk, key_up |-> key_up]

Reverse(seq) == [i \in 1..Len(seq) |-> seq[Len(seq) + 1 - i]]

\* The SendInput calls hotkey(*keys) makes when none fails: none when no
\* key is left after the modifiers or the final key has no virtual-key
\* code; else modifiers down, key down, key up, modifiers up in reverse.
HotkeyEvents(keys) ==
    LET lowered == [i \in 1..Len(keys) |-> KeyLower(keys[i])]
        IsModifier(k) == k \in ModifierNames
        IsFinal(k) == k \notin ModifierNames
        modifiers == SelectSeq(lowered, IsModifier)
        finals == SelectSeq(lowered, IsFinal)
    IN  IF finals = <<>> THEN <<>>
        ELSE IF finals[Len(finals)] \notin DOMAIN VK_CODES THEN <<>>
        ELSE LET vk_final == VK_CODES[finals[Len(finals)]]
                 known == SelectSeq(modifiers, LAMBDA m : m \in DOMAIN VK_CODES)
                 vk_modifiers == [i \in 1..Len(known) |-> VK_CODES[known[i]]]
             IN  [i \in 1..Len(vk_modifiers) |-> KeyEvent(vk_modifiers[i], FALSE)]
                 \o <<KeyEvent(vk_final, FALSE), KeyEvent(vk_final, TRUE)>>
                 \o [i \in 1..Len(vk_modifiers) |->
                        KeyEvent(Reverse(vk_modifiers)[i], TRUE)]

\* Keyboard.hotkey(*keys) when the failAt-th SendInput call raises (0: none
\* does): the events that went out and whether the exception left hotkey.
KeyboardHotkey(keys, failAt) ==
    IF failAt = 0 \/ failAt > Len(HotkeyEvents(keys))
    THEN [raised |-> FALSE, sent |-> HotkeyEvents(keys)]
    ELSE [raised |-> TRUE, sent |-> SubSeq(HotkeyEvents(keys), 1, failAt - 1)]

-----------------------------------------------------------------------------
(* NTWSHotkeys: construction, execute, register (src/input/hotkeys.py) *)

\* register calls made on one table, at most
MaxRebinds == 2
\* entries of an override mapping, at most
MaxOverrides == 2

\* The key combinations callers bind: one the keyboard knows, one whose
\* key has no virtual-key code, one written with capitals.
Combos ==
    {[modifiers |-> <<"ctrl", "shift">>, key |-> "b"],
     [modifiers |-> <<"alt">>, key |-> "f13"],
     [modifiers |-> <<"Ctrl">>, key |-> "B"]}

\* The names callers pass: two values of the enumeration (one bound by
\* default, one not) and two names outside it (a member's name rather than
\* its value, and a new one).
ActionNames == {"buy", "zoom_in", "BUY", "my_macro"}

\* binding_data of an override entry: a mapping with modifiers and key, a
\* mapping without 'key', or a value that is no mapping (a string).
OverrideData ==
    {[kind |-> "mapping", modifiers |-> <<"ctrl", "shift">>, key |-> "b", hasKey |-> TRUE],
     [kind |-> "mapping", modifiers |-> <<"alt">>, key |-> "", hasKey |-> FALSE],
     [kind |-> "string", modifiers |-> <<>>, key |-> "", hasKey |-> FALSE]}

\* The names an override mapping is keyed by
OverrideNames == {"buy", "my_macro"}

\* custom_bindings: the entries of the mapping in iteration order, no name
\* twice (None and {} are the empty sequence).
Overrides ==
    {ov \in UNION {[1..n -> [name : OverrideNames, data : OverrideData]] : n \in 0..MaxOverrides} :
        \A i, j \in 1..Len(ov) : ov[i].name = ov[j].name => i = j}

Register_Everything(table, action, modifiers, key) ==
    [a \in NTWSAction |-> HotkeyBinding(modifiers, key)]

\* NTWSHotkeys.register: self.bindings[action] = HotkeyBinding(...)
Register(table, action, modifiers, key) ==
    [table EXCEPT ![action] = HotkeyBinding(modifiers, key)]

RECURSIVE load_custom_bindings(_, _)
\* NTWSHotkeys._load_custom_bindings: NTWSAction(action_name) raises
\* ValueError for an unknown name, which is caught and the entry skipped;
\* binding_data.get on a value that is no mapping raises AttributeError,
\* which is not caught.
load_custom_bindings(table, entries) ==
    IF entries = <<>> THEN [raised |-> FALSE, table |-> table]
    ELSE LET e == Head(entries) IN
         IF e.name \notin NTWSAction
         THEN load_custom_bindings(table, Tail(entries))
         ELSE IF e.data.kind # "mapping"
         THEN [raised |-> TRUE, table |-> table]
         ELSE load_custom_bindings(
                 Register(table, e.name, e.data.modifiers,
                          IF e.data.hasKey THEN e.data.key ELSE ""),
                 Tail(entries))

\* NTWSHotkeys.__init__
NewHotkeys(custom_bindings) ==
    IF custom_bindings = <<>>
    THEN [raised |-> FALSE, table |-> DEFAULT_HOTKEYS]
    ELSE load_custom_bindings(DEFAULT_HOTKEYS, custom_bindings)

\* NTWSHotkeys.execute: what it returns and the key events that went out
HotkeysExecute(table, action, failAt) ==
    IF ~table[action].bound
    THEN [ret |-> FALSE, sent |-> <<>>]
    ELSE LET r == KeyboardHotkey(to_sequence(table[action]), failAt) IN
         [ret |-> ~r.raised, sent |-> r.sent]

\* A call on the hotkey table: the operation, its arguments, how it ended,
\* what it returned ("True", "False", an action, or NoneV) and the key
\* events it sent.
NoHotkeyOp ==
    [op |-> "none", name |-> "", modifiers |-> <<>>, key |-> "",
     overrides |-> <<>>, outcome |-> "returned", ret |-> NoneV, sent |-> <<>>]

\* The table after NTWSHotkeys(keyboard) with no overrides
HotkeysInit ==
    /\ h_op = [NoHotkeyOp EXCEPT !.op = "construct"]
    /\ h_rebinds = 0

HotkeysFrame ==
    UNCHANGED <<paper_trading_only, t_window, t_connect, t_paper,
                compVars, actVars, findVars, waitVars, ordVars, rgVars, cfgVars, retryVars, toolVars>>

\* NTWSHotkeys(keyboard, custom_bindings): a new table; when construction
\* raises there is no new table and the old one stays.
HotkeysConstruct ==
    /\ \E ov \in Overrides :
          LET new == NewHotkeys(ov) IN
          /\ h_op' = [NoHotkeyOp EXCEPT !.op = "construct", !.overrides = ov,
                         !.outcome = IF new.raised THEN "raised" ELSE "returned"]
          /\ bindings' = IF new.raised THEN bindings ELSE new.table
          /\ h_rebinds' = IF new.raised THEN h_rebinds ELSE 0
    /\ HotkeysFrame

\* hotkeys.execute(action)
HotkeysExecuteCall ==
    /\ \E action \in NTWSAction :
       \E failAt \in 0..Len(HotkeyEvents(to_sequence(bindings[action]))) :
          LET r == HotkeysExecute(bindings, action, failAt) IN
          h_op' = [NoHotkeyOp EXCEPT !.op = "execute", !.name = action,
                      !.ret = IF r.ret THEN "True" ELSE "False", !.sent = r.sent]
    /\ UNCHANGED <<bindings, h_rebinds>>
    /\ HotkeysFrame

\* hotkeys.register(action, modifiers, key)
HotkeysRegister ==
    /\ h_rebinds < MaxRebinds
    /\ \E action \in ActionNames \cap NTWSAction, c \in Combos :
          /\ bindings' = Register(bindings, action, c.modifiers, c.key)
          /\ h_op' = [NoHotkeyOp EXCEPT !.op = "register", !.name = action,
                         !.modifiers = c.modifiers, !.key = c.key]
    /\ h_rebinds' = h_rebinds + 1
    /\ HotkeysFrame

\* hotkeys.register_custom(name, modifiers, key): registers when the name
\* is a value of the enumeration, and returns the action or None.
HotkeysRegisterCustom ==
    /\ h_rebinds < MaxRebinds
    /\ \E name \in ActionNames, c \in Combos :
          /\ bindings' = IF name \in NTWSAction
                         THEN Register(bindings, name, c.modifiers, c.key)
                         ELSE bindings
          /\ h_op' = [NoHotkeyOp EXCEPT !.op = "register_custom", !.name = name,
                         !.modifiers = c.modifiers, !.key = c.key,
                         !.ret = IF name \in NTWSAction THEN name ELSE NoneV]
    /\ h_rebinds' = h_rebinds + 1
    /\ HotkeysFrame

HotkeysNext ==
    \/ HotkeysConstruct
    \/ HotkeysExecuteCall
    \/ HotkeysRegister
    \/ HotkeysRegisterCustom

-----------------------------------------------------------------------------
(* Region (src/screen/regions.py)                                          *)

\* A float is modelled as the exact fraction <<numerator, denominator>>
\* with a positive denominator; the factors used are multiples of 1/2,
\* which a float holds exactly, so the product below is the float product.
Fraction(n, d) == <<n, d>>

\* int(n / d): Python's int() drops the fractional part, towards zero.
Trunc(n, d) == IF n >= 0 THEN n \div d ELSE -((-n) \div d)

Region(name, x, y, width, height, description) ==
    [name |-> name, x |-> x, y |-> y, width |-> width, height |-> height,
     description |-> description]

\* scale with math.floor in place of int()
scale_Floor(self, factor) ==
    Region(self.name,
           (self.x * factor[1]) \div factor[2],
           (self.y * factor[1]) \div factor[2],
           (self.width * factor[1]) \div factor[2],
           (self.height * factor[1]) \div factor[2],
           self.description)

\* Region.scale(factor): the Region returned
scale(self, factor) ==
    Region(self.name,
           Trunc(self.x * factor[1], factor[2]),
           Trunc(self.y * factor[1], factor[2]),
           Trunc(self.width * factor[1], factor[2]),
           Trunc(self.height * factor[1], factor[2]),
           self.description)

\* Region.offset(dx, dy): the Region returned
offset(self, dx, dy) ==
    Region(self.name, self.x + dx, self.y + dy, self.width, self.height,
           self.description)

\* Calls chained on the Region a call returned
MaxChain == 2

\* The Regions the calls start from
Receivers ==
    { Region("r", 10, 20, 30, 40, "example"),
      Region("neg", -7, 5, 3, 9, "left of the window") }

Factors == { Fraction(2, 1), Fraction(1, 2), Fraction(3, 2), Fraction(1, 1) }

Offsets == { <<5, -5>>, <<0, 0>>, <<-3, 4>> }

NoRegionOp ==
    [op |-> "new", recv |-> Region("", 0, 0, 0, 0, ""), factor |-> Fraction(1, 1),
     dx |-> 0, dy |-> 0, result |-> Region("", 0, 0, 0, 0, "")]

RegionInit ==
    /\ g_self = Region("r", 10, 20, 30, 40, "example")
    /\ g_depth = 0
    /\ g_op = NoRegionOp

RegionFrame ==
    UNCHANGED <<r_regions, r_scale, r_rect, r_op,
                compVars, actVars, kitVars, findVars, waitVars, ordVars, hkVars, cfgVars, retryVars, toolVars>>

\* Region(...): a new object
RegionNew ==
    /\ \E r \in Receivers : g_self' = r
    /\ g_depth' = 0
    /\ g_op' = NoRegionOp
    /\ RegionFrame

\* g_self.scale(factor): neither method assigns to a field of self
RegionScale ==
    /\ \E factor \in Factors :
          g_op' = [NoRegionOp EXCEPT !.op = "scale", !.recv = g_self,
                      !.factor = factor, !.result = scale(g_self, factor)]
    /\ UNCHANGED <<g_self, g_depth>>
    /\ RegionFrame

\* g_self.offset(dx, dy)
RegionOffset ==
    /\ \E d \in Offsets :
          g_op' = [NoRegionOp EXCEPT !.op = "offset", !.recv = g_self,
                      !.dx = d[1], !.dy = d[2],
                      !.result = offset(g_self, d[1], d[2])]
    /\ UNCHANGED <<g_self, g_depth>>
    /\ RegionFrame

\* region = region.scale(...): the next call is made on the Region returned
\* (regions.py:222, 227)
RegionRebind ==
    /\ g_op.op \in {"scale", "offset"}
    /\ g_depth < MaxChain
    /\ g_self' = g_op.result
    /\ g_depth' = g_depth + 1
    /\ g_op' = [NoRegionOp EXCEPT !.op = "rebind"]
    /\ RegionFrame

RegionNext ==
    \/ RegionNew
    \/ RegionScale
    \/ RegionOffset
    \/ RegionRebind

-----------------------------------------------------------------------------
(* RegionManager (src/screen/regions.py)                                   *)

BASE_WIDTH == 1920
BASE_HEIGHT == 1080

PREDEFINED_REGIONS ==
    [n \in {"symbol_input", "price_display", "bid_price", "ask_price",
            "order_quantity", "order_price", "order_side", "transmit_button",
            "portfolio_table", "order_list", "status_bar"} |->
        CASE n = "symbol_input" ->
                Region(n, 100, 50, 200, 30, "Symbol search input field")
          [] n = "price_display" ->
                Region(n, 400, 100, 150, 40, "Current price display")
          [] n = "bid_price" -> Region(n, 350, 150, 100, 30, "Bid price")
          [] n = "ask_price" -> Region(n, 450, 150, 100, 30, "Ask price")
          [] n = "order_quantity" ->
                Region(n, 100, 200, 100, 30, "Order quantity input")
          [] n = "order_price" ->
                Region(n, 220, 200, 100, 30, "Order price input")
          [] n = "order_side" ->
                Region(n, 340, 200, 100, 30, "Order side (buy/sell)")
          [] n = "transmit_button" ->
                Region(n, 500, 200, 80, 30, "Order transmit button")
          [] n = "portfolio_table" ->
                Region(n, 0, 300, 1920, 500, "Portfolio positions table")
          [] n = "order_list" ->
                Region(n, 0, 300, 1920, 300, "Pending orders list")
          [] OTHER -> Region(n, 0, 1050, 1920, 30, "Status bar")]

\* self.window_offset, assigned only by __init__
window_offset == <<0, 0>>

\* What window.get_window_rect() gives (has = FALSE: None)
WindowRect(left, top, right, bottom) ==
    [has |-> TRUE, left |-> left, top |-> top, right |-> right, bottom |-> bottom]

NoWindowRect == [has |-> FALSE, left |-> 0, top |-> 0, right |-> 0, bottom |-> 0]

\* Where the window can be: at the origin at the base resolution, moved and
\* at half size, maximised at one and a half times the size (the frame of
\* a maximised window lies off screen), narrow, and not found.
WindowRects ==
    { WindowRect(0, 0, 1920, 1080),
      WindowRect(100, 50, 1060, 590),
      WindowRect(-8, -8, 2872, 1612),
      WindowRect(40, 30, 1000, 1110),
      NoWindowRect }

\* RegionManager._get_window_offset, for the manager the toolkit builds
\* with its window (src/__init__.py:119)
get_window_offset(rect) ==
    IF rect.has THEN <<rect.left, rect.top>> ELSE window_offset

NoRegion == [has |-> FALSE, region |-> Region("", 0, 0, 0, 0, "")]

SomeRegion(region) == [has |-> TRUE, region |-> region]

\* get applying the window offset before the scale
get_TranslateFirst(regions, scale_factor, rect, name, absolute) ==
    IF name \notin DOMAIN regions
    THEN NoRegion
    ELSE LET moved == IF absolute
                      THEN offset(regions[name], get_window_offset(rect)[1],
                                  get_window_offset(rect)[2])
                      ELSE regions[name]
         IN SomeRegion(IF scale_factor[1] # scale_factor[2]
                       THEN scale(moved, scale_factor)
                       ELSE moved)

\* RegionManager.get(name, absolute): the Region returned, or None
get(regions, scale_factor, rect, name, absolute) ==
    IF name \notin DOMAIN regions
    THEN NoRegion
    ELSE LET scaled == IF scale_factor[1] # scale_factor[2]
                       THEN scale(regions[name], scale_factor)
                       ELSE regions[name]
         IN SomeRegion(IF absolute
                       THEN offset(scaled, get_window_offset(rect)[1],
                                   get_window_offset(rect)[2])
                       ELSE scaled)

\* RegionManager.calibrate: the scale factor it leaves
calibrate(scale_factor, rect) ==
    IF ~rect.has
    THEN scale_factor
    ELSE LET current_width == rect.right - rect.left
             current_height == rect.bottom - rect.top
             width_scale == Fraction(current_width, BASE_WIDTH)
             height_scale == Fraction(current_height, BASE_HEIGHT)
         IN IF height_scale[1] * width_scale[2] < width_scale[1] * height_scale[2]
            THEN height_scale
            ELSE width_scale

\* RegionManager.define(name, region): the table it leaves
define(regions, name, region) ==
    [n \in DOMAIN regions \cup {name} |-> IF n = name THEN region ELSE regions[n]]

\* RegionManager.remove(name): the table it leaves
remove(regions, name) ==
    [n \in DOMAIN regions \ {name} |-> regions[n]]

\* The names the calls are made with
AskedNames == {"symbol_input", "portfolio_table", "my_region", "no_such_region"}

\* The names defined and removed, and the Regions defined
DefinedNames == {"symbol_input", "my_region"}

DefinedRegions(name) ==
    { Region(name, 10, 20, 30, 40, "User-defined region: " \o name),
      Region(name, -7, 5, 3, 9, "User-defined region: " \o name) }

NoManagerOp ==
    [op |-> "construct", name |-> "", absolute |-> FALSE, result |-> NoRegion,
     removed |-> FALSE, outcome |-> "returned",
     regions |-> PREDEFINED_REGIONS, scale |-> Fraction(1, 1)]

\* RegionManager(window) with no config_path
ManagerInit ==
    /\ r_regions = PREDEFINED_REGIONS
    /\ r_scale = Fraction(1, 1)
    /\ r_rect = WindowRect(0, 0, 1920, 1080)
    /\ r_op = NoManagerOp

ManagerFrame ==
    UNCHANGED <<g_self, g_depth, g_op, p_file,
                compVars, actVars, kitVars, findVars, waitVars, ordVars, hkVars, retryVars, toolVars>>

\* regions.get(name, absolute)
ManagerGet ==
    /\ \E name \in AskedNames, absolute \in BOOLEAN :
          r_op' = [NoManagerOp EXCEPT !.op = "get", !.name = name,
                      !.absolute = absolute,
                      !.result = get(r_regions, r_scale, r_rect, name, absolute)]
    /\ UNCHANGED <<r_regions, r_scale, r_rect>>
    /\ ManagerFrame

\* regions.define(name, region)
ManagerDefine ==
    /\ \E name \in DefinedNames :
       \E region \in DefinedRegions(name) :
          /\ r_regions' = define(r_regions, name, region)
          /\ r_op' = [NoManagerOp EXCEPT !.op = "define", !.name = name]
    /\ UNCHANGED <<r_scale, r_rect>>
    /\ ManagerFrame

\* regions.remove(name)
ManagerRemove ==
    /\ \E name \in DefinedNames :
          /\ r_regions' = IF name \in DOMAIN r_regions
                          THEN remove(r_regions, name)
                          ELSE r_regions
          /\ r_op' = [NoManagerOp EXCEPT !.op = "remove", !.name = name,
                         !.removed = (name \in DOMAIN r_regions)]
    /\ UNCHANGED <<r_scale, r_rect>>
    /\ ManagerFrame

\* regions.calibrate()
ManagerCalibrate ==
    /\ r_scale' = calibrate(r_scale, r_rect)
    /\ r_op' = [NoManagerOp EXCEPT !.op = "calibrate"]
    /\ UNCHANGED <<r_regions, r_rect>>
    /\ ManagerFrame

\* The user moves or resizes the window, or closes it.
WindowMove ==
    /\ \E rect \in WindowRects \ {r_rect} : r_rect' = rect
    /\ UNCHANGED <<r_regions, r_scale, r_op>>
    /\ ManagerFrame

ManagerNext ==
    \/ ManagerGet
    \/ ManagerDefine
    \/ ManagerRemove
    \/ ManagerCalibrate
    \/ WindowMove

-----------------------------------------------------------------------------
(* RegionManager.save_config / load_config (src/screen/regions.py)         *)

RegionFields == {"name", "x", "y", "width", "height", "description"}

\* A JSON object read for one region: the keys it has and their values
RegionData(keys, region) ==
    [keys |-> keys, name |-> region.name, x |-> region.x, y |-> region.y,
     width |-> region.width, height |-> region.height,
     description |-> region.description]

\* Region.to_dict
to_dict(self) == RegionData(RegionFields, self)

\* Region.from_dict: cls(**data) raises TypeError for a key that is not a
\* field and for a missing field that has no default.
from_dict(data) ==
    [raised |-> ~(/\ data.keys \subseteq RegionFields
                  /\ (RegionFields \ {"description"}) \subseteq data.keys),
     region |-> Region(data.name, data.x, data.y, data.width, data.height,
                       IF "description" \in data.keys THEN data.description ELSE "")]

\* What is at the path: no file, text that is not JSON, a JSON number, or
\* a JSON object with or without the keys scale_factor and regions
NoFile ==
    [kind |-> "missing", has_scale |-> FALSE, scale |-> Fraction(1, 1),
     has_regions |-> FALSE, regions |-> <<>>]

ConfigObject(has_scale, scale_factor, has_regions, entries) ==
    [kind |-> "object", has_scale |-> has_scale, scale |-> scale_factor,
     has_regions |-> has_regions, regions |-> entries]

\* The keys of a dict, in the order json.dump writes them. The table is
\* modelled without its insertion order; the entries of a saved file all
\* load, so the order they are read in does not show.
RECURSIVE NamesInOrder(_)
NamesInOrder(names) ==
    IF names = {}
    THEN <<>>
    ELSE LET n == CHOOSE m \in names : TRUE
         IN <<n>> \o NamesInOrder(names \ {n})

\* RegionManager.save_config: the file written
save_config(regions, scale_factor) ==
    LET names == NamesInOrder(DOMAIN regions)
    IN ConfigObject(TRUE, scale_factor, TRUE,
                    [i \in 1..Len(names) |->
                        [name |-> names[i], data |-> to_dict(regions[names[i]])]])

\* The for loop of load_config from entry i: the table it leaves, and
\* whether from_dict raised
RECURSIVE LoadRegions(_, _, _)
LoadRegions(regions, entries, i) ==
    IF i > Len(entries)
    THEN [raised |-> FALSE, regions |-> regions]
    ELSE LET made == from_dict(entries[i].data)
         IN IF made.raised
            THEN [raised |-> TRUE, regions |-> regions]
            ELSE LoadRegions(define(regions, entries[i].name, made.region),
                             entries, i + 1)

\* RegionManager.load_config: FileNotFoundError and JSONDecodeError are
\* caught; the TypeError of `in` on a number and of from_dict are not.
load_config(regions, scale_factor, file) ==
    CASE file.kind \in {"missing", "garbled"} ->
            [raised |-> FALSE, regions |-> regions, scale |-> scale_factor]
      [] file.kind = "number" ->
            [raised |-> TRUE, regions |-> regions, scale |-> scale_factor]
      [] OTHER ->
            LET scaled == IF file.has_scale THEN file.scale ELSE scale_factor
                loaded == IF file.has_regions
                          THEN LoadRegions(regions, file.regions, 1)
                          ELSE [raised |-> FALSE, regions |-> regions]
            IN [raised |-> loaded.raised, regions |-> loaded.regions,
                scale |-> scaled]

\* Files somebody else wrote
HandFiles ==
    { NoFile,
      [NoFile EXCEPT !.kind = "garbled"],
      [NoFile EXCEPT !.kind = "number"],
      \* a scale factor of 0 and no regions
      ConfigObject(TRUE, Fraction(0, 1), FALSE, <<>>),
      \* a region without a description
      ConfigObject(FALSE, Fraction(1, 1), TRUE,
         << [name |-> "my_region",
             data |-> RegionData(RegionFields \ {"description"},
                                 Region("my_region", 10, 20, 30, 40, ""))] >>),
      \* a good region, then one without a height
      ConfigObject(TRUE, Fraction(1, 2), TRUE,
         << [name |-> "my_region",
             data |-> to_dict(Region("my_region", -7, 5, 3, 9, "hand-written"))],
            [name |-> "symbol_input",
             data |-> RegionData(RegionFields \ {"height"},
                                 Region("symbol_input", 1, 2, 3, 0, ""))] >>) }

\* A file that is missing or malformed: not JSON, not an object, a scale
\* factor that is not positive, or a region entry that makes no Region
Malformed(file) ==
    \/ file.kind # "object"
    \/ file.has_scale /\ file.scale[1] <= 0
    \/ file.has_regions
          /\ \E i \in 1..Len(file.regions) : from_dict(file.regions[i].data).raised

ConfigInit == p_file = NoFile

ConfigFrame ==
    UNCHANGED <<g_self, g_depth, g_op, r_rect,
                compVars, actVars, kitVars, findVars, waitVars, ordVars, hkVars, retryVars, toolVars>>

\* Somebody else writes the file at the path, or deletes it.
FileWrite ==
    /\ \E file \in HandFiles \ {p_file} : p_file' = file
    /\ UNCHANGED <<r_regions, r_scale, r_op>>
    /\ ConfigFrame

\* regions.save_config(path)
ManagerSave ==
    /\ p_file' = save_config(r_regions, r_scale)
    /\ r_op' = [NoManagerOp EXCEPT !.op = "save_config"]
    /\ UNCHANGED <<r_regions, r_scale>>
    /\ ConfigFrame

\* regions.load_config(path)
ManagerLoad ==
    /\ LET r == load_config(r_regions, r_scale, p_file) IN
          /\ r_regions' = r.regions
          /\ r_scale' = r.scale
          /\ r_op' = [NoManagerOp EXCEPT !.op = "load_config",
                         !.outcome = IF r.raised THEN "raised" ELSE "returned"]
    /\ UNCHANGED p_file
    /\ ConfigFrame

\* RegionManager(window, path): a second manager made from the file at the
\* path; r_op holds its table and scale factor. When load_config raises,
\* so does the constructor.
ManagerConstruct ==
    /\ LET r == load_config(PREDEFINED_REGIONS, Fraction(1, 1), p_file) IN
          r_op' = [NoManagerOp EXCEPT !.op = "construct_from",
                      !.outcome = IF r.raised THEN "raised" ELSE "returned",
                      !.regions = r.regions, !.scale = r.scale]
    /\ UNCHANGED <<r_regions, r_scale, p_file>>
    /\ ConfigFrame

ConfigNext ==
    \/ FileWrite
    \/ ManagerSave
    \/ ManagerLoad
    \/ ManagerConstruct
    \/ ManagerDefine
    \/ ManagerRemove
    \/ ManagerCalibrate

-----------------------------------------------------------------------------
(* retry_on_failure (src/utils/retry.py)                                   *)

\* The largest max_attempts a call is decorated with
MaxAttempts == 3

\* max_attempts, delay and backoff of the decorator; delay and backoff are
\* whole numbers, which a float holds exactly. on_retry is a callback that
\* returns, or None; exceptions is left at its default, (Exception,).
RetryArgs ==
    [max_attempts : -1..MaxAttempts, delay : {0, 1, 3}, backoff : {1, 2},
     on_retry : BOOLEAN]

\* last_exception = None
NoException == 0

\* What a call through the wrapper has not given yet
NoRetryResult == [kind |-> "none", attempt |-> 0]

\* The value func returned on its k-th call
Returned(k) == [kind |-> "value", attempt |-> k]

\* The exception func raised on its k-th call, raised again
Reraised(k) == [kind |-> "exception", attempt |-> k]

\* raise None: "TypeError: exceptions must derive from BaseException"
RaiseNoneError == [kind |-> "TypeError", attempt |-> 0]

\* raise last_exception (retry.py:69)
RaiseLast(last_exception) ==
    IF last_exception = NoException THEN RaiseNoneError ELSE Reraised(last_exception)

CallEvent(k, outcome) == [what |-> "func", attempt |-> k, arg |-> outcome]

OnRetryEvent(k) == [what |-> "on_retry", attempt |-> k, arg |-> "exception"]

SleepEvent(k, seconds) == [what |-> "sleep", attempt |-> k, arg |-> ToString(seconds)]

\* The test of line 53 with the last attempt retried as well
RetriesAfter_Always(attempt, max_attempts) == attempt < max_attempts

\* attempt < max_attempts - 1 (retry.py:53)
RetriesAfter(attempt, max_attempts) == attempt < max_attempts - 1

RetryInit ==
    /\ y_pc = "idle"
    /\ y_args = [max_attempts |-> 3, delay |-> 1, backoff |-> 2, on_retry |-> FALSE]
    /\ y_attempt = 0
    /\ y_current_delay = 0
    /\ y_last_exception = NoException
    /\ y_events = <<>>
    /\ y_result = NoRetryResult

RetryFrame ==
    UNCHANGED <<compVars, actVars, kitVars, findVars, waitVars, ordVars, hkVars,
                rgVars, cfgVars, toolVars>>

\* wrapper(*args) is called: lines 44-45
RetryCall ==
    /\ y_pc = "idle"
    /\ \E args \in RetryArgs :
          /\ y_args' = args
          /\ y_current_delay' = args.delay
    /\ y_pc' = "loop"
    /\ y_attempt' = 0
    /\ y_last_exception' = NoException
    /\ y_events' = <<>>
    /\ y_result' = NoRetryResult
    /\ RetryFrame

\* One pass of the for loop, lines 47-67; attempt counts from 0.
RetryAttempt ==
    /\ y_pc = "loop"
    /\ y_attempt < y_args.max_attempts
    /\ \E outcome \in {"returns", "raises"} :
          IF outcome = "returns"
          THEN /\ y_events' = Append(y_events, CallEvent(y_attempt + 1, outcome))
               /\ y_result' = Returned(y_attempt + 1)
               /\ y_pc' = "returned"
               /\ UNCHANGED <<y_last_exception, y_current_delay, y_attempt>>
          ELSE /\ y_last_exception' = y_attempt + 1
               /\ IF RetriesAfter(y_attempt, y_args.max_attempts)
                  THEN /\ y_events' =
                             y_events \o <<CallEvent(y_attempt + 1, outcome)>>
                                \o (IF y_args.on_retry
                                    THEN <<OnRetryEvent(y_attempt + 1)>>
                                    ELSE <<>>)
                                \o <<SleepEvent(y_attempt + 1, y_current_delay)>>
                       /\ y_current_delay' = y_current_delay * y_args.backoff
                  ELSE /\ y_events' = Append(y_events, CallEvent(y_attempt + 1, outcome))
                       /\ UNCHANGED y_current_delay
               /\ y_attempt' = y_attempt + 1
               /\ UNCHANGED <<y_pc, y_result>>
    /\ UNCHANGED y_args
    /\ RetryFrame

\* The loop is over: raise last_exception, line 69
RetryExhausted ==
    /\ y_pc = "loop"
    /\ y_attempt >= y_args.max_attempts
    /\ y_result' = RaiseLast(y_last_exception)
    /\ y_pc' = "raised"
    /\ UNCHANGED <<y_args, y_attempt, y_current_delay, y_last_exception, y_events>>
    /\ RetryFrame

\* The caller goes on to its next call.
RetryDone ==
    /\ y_pc \in {"returned", "raised"}
    /\ y_pc' = "idle"
    /\ UNCHANGED <<y_args, y_attempt, y_current_delay, y_last_exception, y_events,
                   y_result>>
    /\ RetryFrame

RetryNext ==
    \/ RetryCall
    \/ RetryAttempt
    \/ RetryExhausted
    \/ RetryDone

-----------------------------------------------------------------------------
(* handle_tool_call (src/mcp_server/tools.py)                              *)

\* JSON values of the result dicts
JsonBool(b) == [t |-> "bool", v |-> IF b THEN "True" ELSE "False"]
JsonStr(s) == [t |-> "str", v |-> s]
JsonNull == [t |-> "null", v |-> "None"]
\* a number, a list or a nested dict, by what it holds
JsonOther(what) == [t |-> "other", v |-> what]

Item(key, value) == [key |-> key, value |-> value]

\* json.dumps of one value: True and False become true and false, None
\* becomes null, a str is quoted
DumpValue(value) ==
    CASE value.t = "bool" -> IF value.v = "True" THEN "true" ELSE "false"
      [] value.t = "str" -> "\"" \o value.v \o "\""
      [] value.t = "null" -> "null"
      [] OTHER -> value.v

\* json.dumps of a dict, as the tokens of the text written
RECURSIVE DumpItems(_)
DumpItems(items) ==
    IF items = <<>>
    THEN <<>>
    ELSE <<"\"" \o Head(items).key \o "\"", ":", DumpValue(Head(items).value)>>
            \o (IF Tail(items) = <<>> THEN <<>> ELSE <<",">>)
            \o DumpItems(Tail(items))

dumps(items) == <<"{">> \o DumpItems(items) \o <<"}">>

\* _action_result_to_dict
action_result_to_dict(result) ==
    << Item("success", JsonBool(result.success)),
       Item("message", JsonStr(result.message)),
       Item("error", IF result.error = NoneV THEN JsonNull ELSE JsonStr(result.error)),
       Item("duration", JsonOther("0.0")) >>

\* The keys each tool reads with args[...] (the others with args.get), in
\* the order it reads them
RequiredArgs(name) ==
    CASE name = "create_order" -> <<"symbol", "side", "quantity">>
      [] name \in {"search_symbol", "open_chart", "get_position"} -> <<"symbol">>
      [] OTHER -> <<>>

ToolNames ==
    {"create_order", "transmit_order", "cancel_order", "search_symbol",
     "open_chart", "get_portfolio", "get_position", "screenshot", "read_screen",
     "get_status"}

\* One call of a tool: the name, the arguments (keys: the keys the dict
\* has), and what the collaborators do during the call
NoToolCall ==
    [name |-> "get_status", keys |-> {}, symbol |-> "AAPL", side |-> "BUY",
     side_is_str |-> TRUE, quantity |-> 100, limit_price |-> NoPrice,
     flag |-> FALSE, fault |-> [at |-> 0, sticky |-> FALSE],
     screen |-> DefaultScreen, capture |-> "image", ocr |-> "found",
     connected |-> FALSE, ini |-> "paper"]

ToolFaults == {[at |-> 0, sticky |-> FALSE], [at |-> 1, sticky |-> FALSE],
               [at |-> 2, sticky |-> TRUE]}

ToolScreens ==
    {DefaultScreen,
     [captureOk |-> TRUE, region |-> TRUE, rows |-> <<PositionRow("AAPL", 100)>>]}

ToolCalls ==
    {[NoToolCall EXCEPT !.name = "create_order", !.keys = keys, !.side = side,
                        !.side_is_str = str, !.quantity = q, !.limit_price = lp,
                        !.flag = transmit, !.fault = fault] :
        keys \in {{"symbol", "side", "quantity", "limit_price", "transmit"},
                  {"symbol", "side", "quantity"}, {"side", "quantity"},
                  {"symbol", "side"}, {}},
        side \in {"BUY", "sell"}, str \in BOOLEAN, q \in {100, 1001},
        lp \in {Price(150)}, transmit \in BOOLEAN, fault \in ToolFaults}
    \cup {[NoToolCall EXCEPT !.name = name, !.keys = keys, !.flag = flag,
                             !.fault = fault] :
            name \in {"transmit_order", "cancel_order"},
            keys \in {{}, {"confirm", "cancel_all"}},
            flag \in BOOLEAN, fault \in ToolFaults}
    \cup {[NoToolCall EXCEPT !.name = name, !.keys = keys, !.symbol = symbol,
                             !.fault = fault, !.screen = screen] :
            name \in {"search_symbol", "open_chart", "get_position", "get_portfolio"},
            keys \in {{}, {"symbol"}}, symbol \in {"AAPL", ""},
            fault \in ToolFaults, screen \in ToolScreens}
    \cup {[NoToolCall EXCEPT !.name = name, !.keys = keys, !.capture = capture,
                             !.ocr = ocr] :
            name \in {"screenshot", "read_screen"}, keys \in {{}, {"pattern"}},
            capture \in {"image", "none", "raises"},
            ocr \in {"found", "none", "raises"}}
    \cup {[NoToolCall EXCEPT !.name = name, !.connected = connected, !.ini = ini] :
            name \in {"get_status", "no_such_tool", ""},
            connected \in BOOLEAN, ini \in JtsIni}

\* What _execute_tool gives: a dict, or an exception with its text
ToolDict(items) == [raised |-> FALSE, error |-> "", items |-> items]
ToolRaised(error) == [raised |-> TRUE, error |-> error, items |-> <<>>]

\* The result of an action's execute, as the tool hands it on
FromAction(e, extra) ==
    IF e.raised
    THEN ToolRaised(e.result.error)
    ELSE ToolDict(action_result_to_dict(e.result)
                     \o (IF e.result.data # <<>> THEN extra ELSE <<>>))

\* str.upper for the sides of the model
SideUpper(side) == IF side = "sell" THEN "SELL" ELSE side

\* The first key of RequiredArgs the arguments lack, from position i
RECURSIVE FirstMissing(_, _, _)
FirstMissing(name, keys, i) ==
    IF i > Len(RequiredArgs(name)) THEN ""
    ELSE IF RequiredArgs(name)[i] \notin keys THEN RequiredArgs(name)[i]
    ELSE FirstMissing(name, keys, i + 1)

\* _execute_tool
execute_tool(call, bind) ==
    LET missing == FirstMissing(call.name, call.keys, 1) IN
    IF call.name \in ToolNames /\ missing # ""
    THEN ToolRaised("'" \o missing \o "'")
    ELSE CASE call.name = "create_order" ->
                 IF ~call.side_is_str
                 THEN ToolRaised("'int' object has no attribute 'upper'")
                 ELSE FromAction(
                        CreateOrderExecute(TRUE,
                           [symbol |-> call.symbol, side |-> SideUpper(call.side),
                            quantity |-> call.quantity, order_type |-> "LMT",
                            limit_price |-> IF "limit_price" \in call.keys
                                            THEN call.limit_price ELSE NoPrice,
                            stop_price |-> NoPrice],
                           "transmit" \in call.keys /\ call.flag,
                           0, call.fault, bind), <<>>)
           [] call.name = "transmit_order" ->
                 FromAction(TransmitOrderExecute(
                               IF "confirm" \in call.keys THEN call.flag ELSE TRUE,
                               0, call.fault, bind), <<>>)
           [] call.name = "cancel_order" ->
                 FromAction(CancelOrderExecute("cancel_all" \in call.keys /\ call.flag,
                                               0, call.fault, bind), <<>>)
           [] call.name = "search_symbol" ->
                 FromAction(SearchSymbolExecute(call.symbol, TRUE, 0, call.fault, bind),
                            <<>>)
           [] call.name = "open_chart" ->
                 FromAction(OpenChartExecute(call.symbol, 0, call.fault, bind), <<>>)
           [] call.name = "get_portfolio" ->
                 FromAction(GetPortfolioExecute(call.screen, 0, call.fault, bind),
                            <<Item("positions", JsonOther("[...]"))>>)
           [] call.name = "get_position" ->
                 FromAction(GetPositionExecute(call.symbol, call.screen, 0,
                                               call.fault, bind),
                            <<Item("position", JsonOther("{...}"))>>)
           [] call.name = "screenshot" ->
                 IF call.capture = "raises" THEN ToolRaised("capture failed")
                 ELSE IF call.capture = "image"
                 THEN ToolDict(<<Item("success", JsonBool(TRUE)),
                                 Item("image_base64", JsonStr("iVBOR")),
                                 Item("width", JsonOther("1920")),
                                 Item("height", JsonOther("1080"))>>)
                 ELSE ToolDict(<<Item("success", JsonBool(FALSE)),
                                 Item("error", JsonStr("Could not capture screenshot"))>>)
           [] call.name = "read_screen" ->
                 IF call.capture = "raises" THEN ToolRaised("capture failed")
                 ELSE IF call.capture = "none"
                 THEN ToolDict(<<Item("success", JsonBool(FALSE)),
                                 Item("error", JsonStr("Could not capture screen"))>>)
                 ELSE IF call.ocr = "raises" THEN ToolRaised("ocr failed")
                 ELSE IF "pattern" \in call.keys
                 THEN IF call.ocr = "found"
                      THEN ToolDict(<<Item("success", JsonBool(TRUE)),
                                      Item("text", JsonStr("AAPL")),
                                      Item("confidence", JsonOther("0.9")),
                                      Item("position", JsonOther("[...]"))>>)
                      ELSE ToolDict(<<Item("success", JsonBool(FALSE)),
                                      Item("error", JsonStr("Text not found"))>>)
                 ELSE ToolDict(<<Item("success", JsonBool(TRUE)),
                                 Item("texts", JsonOther("[...]"))>>)
           [] call.name = "get_status" ->
                 IF call.connected /\ call.ini = "unreadable"
                 THEN ToolRaised("jts.ini cannot be read")
                 ELSE ToolDict(<<Item("success", JsonBool(TRUE)),
                                 Item("connected", JsonBool(call.connected)),
                                 Item("paper_trading",
                                      IF call.connected
                                      THEN JsonBool(verify_paper_trading(call.ini))
                                      ELSE JsonNull),
                                 Item("tws_path", JsonStr("C:\\Jts"))>>)
           [] OTHER ->
                 ToolDict(<<Item("success", JsonBool(FALSE)),
                            Item("error", JsonStr("Unknown tool: " \o call.name))>>)

\* What a call of handle_tool_call gives: the text returned, or the
\* exception that left it
ToolReturned(tokens) == [outcome |-> "returned", text |-> tokens]

\* handle_tool_call without its except clause
handle_tool_call_NoExcept(call, bind) ==
    LET r == execute_tool(call, bind) IN
    IF r.raised
    THEN [outcome |-> "raised", text |-> <<r.error>>]
    ELSE ToolReturned(dumps(r.items))

\* handle_tool_call
handle_tool_call(call, bind) ==
    LET r == execute_tool(call, bind) IN
    IF r.raised
    THEN ToolReturned(dumps(<<Item("success", JsonBool(FALSE)),
                              Item("error", JsonStr(r.error))>>))
    ELSE ToolReturned(dumps(r.items))

ToolsInit ==
    /\ m_call = NoToolCall
    /\ m_raised = FALSE
    /\ m_result = ToolReturned(<<>>)

\* await handle_tool_call(toolkit, name, arguments)
HandleToolCall ==
    /\ \E call \in ToolCalls :
          /\ m_call' = call
          /\ m_raised' = execute_tool(call, bindings).raised
          /\ m_result' = handle_tool_call(call, bindings)
    /\ UNCHANGED <<compVars, actVars, kitVars, findVars, waitVars, ordVars, hkVars,
                   rgVars, cfgVars, retryVars>>

ToolsNext == HandleToolCall

-----------------------------------------------------------------------------
(* Specifications *)

\* Every component as constructed, with any safety configuration.
InitAny ==
    /\ CompositeInit /\ ActionsInit /\ ToolkitInit /\ FinderInit /\ WaitInit
    /\ OrderInit /\ HotkeysInit /\ RegionInit /\ ManagerInit /\ ConfigInit /\ RetryInit /\ ToolsInit

\* The same under the default configuration (settings.py:59).
Init == InitAny /\ paper_trading_only = TRUE

SpecComposite == Init /\ [][CompositeNext]_vars

SpecActions == Init /\ [][ActionsNext]_vars

SpecToolkit == InitAny /\ [][ToolkitNext]_vars

SpecFinder == Init /\ [][FinderNext]_vars

SpecWait == Init /\ [][WaitNext]_vars

SpecOrderParams == Init /\ [][OrderNext]_vars

SpecHotkeys == Init /\ [][HotkeysNext]_vars

SpecRegion == Init /\ [][RegionNext]_vars

SpecRegionManager == Init /\ [][ManagerNext]_vars

SpecRegionConfig == Init /\ [][ConfigNext]_vars

SpecRetry == Init /\ [][RetryNext]_vars

SpecTools == Init /\ [][ToolsNext]_vars

-----------------------------------------------------------------------------
(* Claims about CompositeAction *)

\* The index of the first sub-action in `acts` whose result is a failure
\* (0 when there is none).
FirstFailure(acts) ==
    IF \E k \in 1..Len(acts) : acts[k] \in {"fail", "invalid"}
    THEN CHOOSE k \in 1..Len(acts) :
            acts[k] \in {"fail", "invalid"}
               /\ \A j \in 1..(k-1) : acts[j] \notin {"fail", "invalid"}
    ELSE 0

\* C1: with stop_on_failure the sub-actions run in list order; only the
\* last result obtained can be a failure, and once a failed result is in
\* hand no further sub-action is called; the composite then returns
\* success=false with data = the results of sub-actions 1..k, k the first
\* failure, in order.
C1_StopOnFirstFailure ==
    c_stop =>
      /\ c_called = [j \in 1..Len(c_called) |-> j]
      /\ \A k \in 1..Len(c_results) :
            ~c_results[k].success =>
               /\ k = FirstFailure(c_actions)
               /\ Len(c_results) = k
               /\ Len(c_called) = k
               /\ c_pc = "returned"
               /\ c_result.success = FALSE
               /\ c_result.data = [j \in 1..k |-> SubResult(j, c_actions[j])]

\* [A ok, B fail, C ok] with stop_on_failure: returned with two results.
C1_Witness ==
    /\ c_stop
    /\ c_actions = <<"ok", "fail", "ok">>
    /\ c_pc = "returned"
    /\ Len(c_result.data) = 2
    /\ c_called = <<1, 2>>

\* C3: CompositeAction.execute never propagates an exception: a call that
\* has ended has ended with an ActionResult.
C3_CompositeNeverRaises ==
    c_pc # "raised"

\* C17: with stop_on_failure=False the sub-actions are called once each in
\* list order whatever results they return, and the composite returns
\* success=True with data = the results of all of them in order, the failed
\* ones included.
C17_RunsAllWithoutStop ==
    ~c_stop =>
      /\ c_called = [j \in 1..Len(c_called) |-> j]
      /\ Len(c_results) <= Len(c_called)
      /\ c_pc = "returned" =>
           /\ c_result.success
           /\ c_called = [j \in 1..Len(c_actions) |-> j]
           /\ c_result.data = [j \in 1..Len(c_actions) |-> SubResult(j, c_actions[j])]

\* [A ok, B fail, C ok] without stop_on_failure: three results, B's second.
C17_Witness ==
    /\ ~c_stop
    /\ c_actions = <<"ok", "fail", "ok">>
    /\ c_pc = "returned"
    /\ c_result.success
    /\ Len(c_result.data) = 3
    /\ ~c_result.data[2].success

\* C18 (as stated). Whenever validate reports an error for a composite,
\* its execute returns a failed result and no sub-action is executed.
C18_ValidatesBeforeExecuting ==
    CompositeValidate(c_actions) # NoneV =>
       /\ c_called = <<>>
       /\ c_pc \in {"idle", "loop", "returned"}
       /\ c_pc = "returned" => ~c_result.success

-----------------------------------------------------------------------------
(* Claims about the concrete actions *)

\* The error the called action's validation step reports for the call's
\* arguments (NoneV: none, or the action has no validation step).
ValidationError(call) ==
    CASE call.action = "create_order"     -> CreateOrderValidate(call.hasParams, call.params)
      [] call.action = "search_symbol"    -> SymbolValidate(call.symbol)
      [] call.action = "open_chart"       -> SymbolValidate(call.symbol)
      [] call.action = "change_timeframe" -> TimeframeValidate(call.timeframe)
      [] call.action = "open_window"      -> WindowValidate(call.window)
      [] call.action = "get_position"     -> PositionValidate(call.symbol)
      [] call.action = "navigate_menu"    ->
            IF call.path = <<>> THEN "Menu path required" ELSE NoneV
      [] OTHER -> NoneV

\* C2: whenever a collaborator call raised during a concrete action's
\* execute, the call returned a failed ActionResult carrying an error text,
\* and no exception reached the caller.
C2_CollaboratorFailureIsFailedResult ==
    (a_pc # "idle" /\ a_faulted) =>
        /\ a_pc = "returned"
        /\ ~a_result.success
        /\ a_result.error # NoneV

\* C4: when the validation step reports an error for the arguments, execute
\* returns success=false carrying that error, raises nothing, and has sent
\* no keyboard, mouse or hotkey input.
C4_ValidationErrorIsFailedResult ==
    (a_pc # "idle" /\ ValidationError(a_call) # NoneV) =>
        /\ a_pc = "returned"
        /\ ~a_result.success
        /\ a_result.error = ValidationError(a_call)
        /\ a_sent = <<>>

\* An order over the quantity limit was rejected before any input.
C4_Witness ==
    /\ a_pc = "returned"
    /\ a_call.action = "create_order"
    /\ a_call.params.quantity = 1001
    /\ a_result.error = "Quantity 1001 exceeds max 1000"
    /\ a_sent = <<>>

TransmitSent == \E k \in 1..Len(a_sent) : a_sent[k].via = "transmit"

\* C9: CreateOrderAction.execute sends the transmit hotkey only when called
\* with transmit=true, and ClosePositionAction never sends it.
C9_TransmitOnlyOnRequest ==
    /\ (a_call.action = "create_order" /\ TransmitSent) => a_call.transmit
    /\ a_call.action = "close_position" => ~TransmitSent

\* An order created with transmit=false: the buy hotkey went out, the
\* transmit hotkey did not.
C9_Witness ==
    /\ a_pc = "returned"
    /\ a_call.action = "create_order"
    /\ ~a_call.transmit
    /\ a_result.success
    /\ \E k \in 1..Len(a_sent) : a_sent[k].via = "buy"
    /\ ~TransmitSent

OrderInputSent ==
    \E k \in 1..Len(a_sent) : a_sent[k].via \in {"buy", "sell", "transmit"}

\* C10: with paper_trading_only, connect() returns true only if paper
\* trading was verified, and no order action sends buy, sell or transmit
\* input unless the toolkit has connected with paper trading verified.
C10_PaperTradingOnly ==
    paper_trading_only =>
        /\ t_connect = "true" => t_paper
        /\ OrderInputSent => (t_connect = "true" /\ t_paper)


\* C5 (as stated). A find whose spec has the POSITION strategy and a region
\* returns, whatever finds came before and whether the cache is used or
\* not, an Element whose bounds are that region.
C5_PositionFindGivesRegion ==
    (f_op.op = "find" /\ f_op.spec.strategy = "position" /\ f_op.spec.hasRegion)
        => /\ f_op.outcome = "returned"
           /\ f_op.element.kind = "rect"
           /\ f_op.element.rect = f_op.spec.region

C8_FinderNeverRaises ==
    /\ f_op.op \in {"find", "find_all", "exists"} => f_op.outcome = "returned"
    /\ (/\ f_op.op \in {"find", "exists"}
        /\ f_strategies[f_op.spec.strategy] = "none"
        /\ ~(f_op.looked /\ f_op.visible))
          => f_op.element = NoElement


\* C7 (as stated). Whatever timeout is passed, wait_for returns the Element
\* of the first poll that resolves before the deadline (three absent polls
\* then present, timeout=5: elapsed between 1.0 s and 2.0 s), and raises
\* TimeoutError carrying the spec description and the timeout passed, after
\* about that many seconds, exactly when every poll before the deadline was
\* absent.
C7_WaitForDeadline ==
    /\ (w_pc = "returned")
          => /\ w_plan.then = "found"
             /\ w_polls = w_plan.absent + 1
             /\ (w_passed.has => w_elapsed < Tenths(w_passed.v))
             /\ (w_plan.absent = 3 /\ w_passed = Timeout(5))
                   => (w_elapsed >= Tenths(1) /\ w_elapsed <= Tenths(2))
    /\ (w_pc = "raised" /\ w_passed.has)
          => /\ w_result.error.kind = "TimeoutError"
             /\ w_result.error.operation = "Element " \o SpecStr(w_spec)
             /\ w_result.error.timeout = w_passed.v
             /\ w_elapsed >= Tenths(w_passed.v)
             /\ w_elapsed <= Tenths(w_passed.v) + PollInterval + 1


-----------------------------------------------------------------------------
(* Claims about OrderParams.validate *)

\* C11 (as stated). validate returns no error if and only if the symbol is
\* non-empty and at most 10 characters, the quantity is positive, a limit
\* price is present for LMT and STP_LMT, a stop price is present for STP and
\* STP_LMT, and every price supplied is positive.
C11_ValidateIffWellFormed ==
    o_pc = "returned" =>
       ((o_error = NoneV) <=>
           /\ o_params.symbol # "" /\ Len(o_params.symbol) <= 10
           /\ o_params.quantity > 0
           /\ o_params.order_type \in {"LMT", "STP_LMT"} => o_params.limit_price.has
           /\ o_params.order_type \in {"STP", "STP_LMT"} => o_params.stop_price.has
           /\ o_params.limit_price.has => o_params.limit_price.v > 0
           /\ o_params.stop_price.has => o_params.stop_price.v > 0)

\* C12 (as stated). A market order for 100 of a valid symbol validates
\* whatever its price fields hold.
C12_MarketOrderIgnoresPrices ==
    (/\ o_pc = "returned"
     /\ o_params.symbol = "AAPL"
     /\ o_params.quantity = 100
     /\ o_params.order_type = "MKT")
        => o_error = NoneV


-----------------------------------------------------------------------------
(* Claims about the hotkey table *)

\* C13 (as stated). execute(action) returns true exactly when the binding's
\* combination went out through the keyboard; it returns false and sends
\* nothing for an action without binding, and never raises.
C13_ExecuteTrueIffSent ==
    h_op.op = "execute" =>
       /\ h_op.outcome = "returned"
       /\ (h_op.ret = "True")
             <=> /\ bindings[h_op.name].bound
                 /\ h_op.sent # <<>>
                 /\ h_op.sent = HotkeyEvents(to_sequence(bindings[h_op.name]))
       /\ ~bindings[h_op.name].bound => (h_op.ret = "False" /\ h_op.sent = <<>>)

\* C14 (as stated). Construction with an override mapping never fails;
\* every entry named by a value of the enumeration replaces that action's
\* binding, every other entry is skipped, and the actions not named keep
\* their defaults.
C14_OverridesNeverFail ==
    h_op.op = "construct" =>
       /\ h_op.outcome = "returned"
       /\ h_rebinds = 0 =>
            \A a \in NTWSAction :
               IF \E i \in 1..Len(h_op.overrides) : h_op.overrides[i].name = a
               THEN \E i \in 1..Len(h_op.overrides) :
                       /\ h_op.overrides[i].name = a
                       /\ bindings[a] = HotkeyBinding(h_op.overrides[i].data.modifiers,
                                                      h_op.overrides[i].data.key)
               ELSE bindings[a] = DEFAULT_HOTKEYS[a]

C16_DefaultBuySell ==
    (h_op.op = "construct" /\ h_op.outcome = "returned" /\ h_op.overrides = <<>>)
        => /\ bindings["buy"] = HotkeyBinding(<<"ctrl", "shift">>, "b")
           /\ bindings["sell"] = HotkeyBinding(<<"ctrl", "shift">>, "s")

\* C19. RegionManager.get gives None for a name that is not in the table;
\* for a name that is, it gives the stored Region with x, y, width and
\* height multiplied by the scale factor (int() of the product) and then,
\* only when absolute is asked, x and y moved by the top-left corner the
\* window reports during the call (by window_offset when it reports none);
\* the offset is not scaled, width and height are not moved, and the table
\* and the scale factor stay as they were.
C19_GetScalesThenTranslates ==
    [][(r_op'.op = "get" /\ r_op' # r_op) =>
          LET corner == IF r_rect.has THEN <<r_rect.left, r_rect.top>> ELSE <<0, 0>>
              dx == IF r_op'.absolute THEN corner[1] ELSE 0
              dy == IF r_op'.absolute THEN corner[2] ELSE 0
          IN /\ r_regions' = r_regions
             /\ r_scale' = r_scale
             /\ IF r_op'.name \notin DOMAIN r_regions
                THEN ~r_op'.result.has
                ELSE LET stored == r_regions[r_op'.name]
                         given == r_op'.result.region
                     IN /\ r_op'.result.has
                        /\ given.name = stored.name
                        /\ given.x = Trunc(stored.x * r_scale[1], r_scale[2]) + dx
                        /\ given.y = Trunc(stored.y * r_scale[1], r_scale[2]) + dy
                        /\ given.width = Trunc(stored.width * r_scale[1], r_scale[2])
                        /\ given.height = Trunc(stored.height * r_scale[1], r_scale[2])]_vars

\* get("symbol_input", absolute) on a half-size window at (100, 50): the
\* stored (100, 50, 200, 30) halved and then moved.
C19_Witness ==
    /\ r_op.op = "get"
    /\ r_op.name = "symbol_input"
    /\ r_op.absolute
    /\ r_regions = PREDEFINED_REGIONS
    /\ r_scale[1] * 2 = r_scale[2]
    /\ r_rect = WindowRect(100, 50, 1060, 590)
    /\ r_op.result = SomeRegion(Region("symbol_input", 150, 75, 100, 15,
                                       "Symbol search input field"))

\* C20. Region.scale(f) returns a Region whose x, y, width and height are
\* the receiver's multiplied by f with the fraction dropped, and
\* Region.offset(dx, dy) one with x + dx, y + dy and the receiver's width
\* and height; the receiver is as it was after either call. scale(2.0) on
\* (10, 20, 30, 40) gives (20, 40, 60, 80), and offset(5, -5) on that gives
\* (25, 35, 60, 80).
C20_ScaleAndOffset ==
    /\ g_op.op = "scale" =>
          /\ g_op.result.x = Trunc(g_op.recv.x * g_op.factor[1], g_op.factor[2])
          /\ g_op.result.y = Trunc(g_op.recv.y * g_op.factor[1], g_op.factor[2])
          /\ g_op.result.width = Trunc(g_op.recv.width * g_op.factor[1], g_op.factor[2])
          /\ g_op.result.height = Trunc(g_op.recv.height * g_op.factor[1], g_op.factor[2])
          /\ g_self = g_op.recv
    /\ g_op.op = "offset" =>
          /\ g_op.result.x = g_op.recv.x + g_op.dx
          /\ g_op.result.y = g_op.recv.y + g_op.dy
          /\ g_op.result.width = g_op.recv.width
          /\ g_op.result.height = g_op.recv.height
          /\ g_self = g_op.recv
    /\ (g_op.op = "scale" /\ g_op.factor = Fraction(2, 1)
           /\ <<g_op.recv.x, g_op.recv.y, g_op.recv.width, g_op.recv.height>>
                 = <<10, 20, 30, 40>>)
          => <<g_op.result.x, g_op.result.y, g_op.result.width, g_op.result.height>>
                 = <<20, 40, 60, 80>>
    /\ (g_op.op = "offset" /\ g_op.dx = 5 /\ g_op.dy = -5
           /\ <<g_op.recv.x, g_op.recv.y, g_op.recv.width, g_op.recv.height>>
                 = <<20, 40, 60, 80>>)
          => <<g_op.result.x, g_op.result.y, g_op.result.width, g_op.result.height>>
                 = <<25, 35, 60, 80>>

\* offset(5, -5) was called on the Region that scale(2.0) returned for
\* (10, 20, 30, 40).
C20_Witness ==
    /\ g_op.op = "offset"
    /\ g_depth = 1
    /\ g_op.dx = 5 /\ g_op.dy = -5
    /\ g_self = Region("r", 20, 40, 60, 80, "example")
    /\ g_op.result = Region("r", 25, 35, 60, 80, "example")

\* C21 (as stated). load_config does not raise: for a missing file and for
\* a malformed one (not JSON, or JSON with a scale factor or a region entry
\* that is not valid) it returns and leaves the region table and the scale
\* factor as they were before the call.
C21_LoadConfigTolerant ==
    [][(r_op'.op = "load_config" /\ r_op' # r_op /\ Malformed(p_file)) =>
          /\ r_op'.outcome = "returned"
          /\ r_regions' = r_regions
          /\ r_scale' = r_scale]_vars

\* C28 (as stated). A manager constructed from the file another manager
\* has just saved has that manager's region table, name for name, and its
\* scale factor.
C28_SaveLoadRoundTrip ==
    (r_op.op = "construct_from" /\ p_file = save_config(r_regions, r_scale))
        => /\ r_op.outcome = "returned"
           /\ r_op.regions = r_regions
           /\ r_op.scale = r_scale

RECURSIVE Pow(_, _)
Pow(b, n) == IF n = 0 THEN 1 ELSE b * Pow(b, n - 1)

\* The places in y_events where func was called
FuncCalls == {i \in 1..Len(y_events) : y_events[i].what = "func"}

\* C22. A call through retry_on_failure calls func at most max_attempts
\* times, numbered in order, and a call of func that returns is the last
\* thing that happens: its value is the result. The k-th call failing with
\* k < max_attempts is followed by one on_retry(exception, k), when there
\* is an on_retry, and then by one sleep of delay * backoff^(k-1); the
\* max_attempts-th call failing is followed by neither, and the exception
\* it raised is raised again.
C22_RetryProtocol ==
    LET n == y_args.max_attempts
        after(i) == IF y_args.on_retry THEN i + 2 ELSE i + 1
    IN /\ Cardinality(FuncCalls) <= (IF n > 0 THEN n ELSE 0)
       /\ \A i \in FuncCalls :
             LET k == y_events[i].attempt IN
             /\ k = Cardinality({j \in FuncCalls : j <= i})
             /\ IF y_events[i].arg = "returns"
                THEN /\ i = Len(y_events)
                     /\ y_result = Returned(k)
                ELSE IF k < n
                THEN /\ Len(y_events) >= after(i)
                     /\ y_args.on_retry => y_events[i + 1] = OnRetryEvent(k)
                     /\ y_events[after(i)] =
                           SleepEvent(k, y_args.delay * Pow(y_args.backoff, k - 1))
                     /\ after(i) < Len(y_events) => y_events[after(i) + 1].what = "func"
                ELSE /\ i = Len(y_events)
                     /\ y_pc = "raised" => y_result = Reraised(k)
       /\ \A i \in 1..Len(y_events) :
             y_events[i].what = "on_retry" =>
                /\ y_args.on_retry
                /\ i > 1 /\ y_events[i - 1] = CallEvent(y_events[i].attempt, "raises")
       /\ (y_pc = "raised" /\ n >= 1) => y_result = Reraised(n)
       /\ y_pc = "returned" => y_result.kind = "value"

\* Three attempts failed with delay 3 and backoff 2: on_retry and a sleep
\* of 3 after the first, on_retry and a sleep of 6 after the second, and
\* the third exception raised again.
C22_Witness ==
    /\ y_pc = "raised"
    /\ y_args = [max_attempts |-> 3, delay |-> 3, backoff |-> 2, on_retry |-> TRUE]
    /\ y_events = << CallEvent(1, "raises"), OnRetryEvent(1), SleepEvent(1, 3),
                     CallEvent(2, "raises"), OnRetryEvent(2), SleepEvent(2, 6),
                     CallEvent(3, "raises") >>
    /\ y_result = Reraised(3)

\* C29 (as stated). Whatever max_attempts is, a call through
\* retry_on_failure ends with the value func returned or with an exception
\* func raised.
C29_NoErrorOfItsOwn ==
    y_pc \in {"returned", "raised"} => y_result.kind \in {"value", "exception"}

\* The value written for a key of the JSON object returned, "" when the
\* object has no such key
JsonField(text, key) ==
    IF \E i \in 1..(Len(text) - 2) : text[i] = "\"" \o key \o "\"" /\ text[i + 1] = ":"
    THEN text[(CHOOSE i \in 1..(Len(text) - 2) :
                  text[i] = "\"" \o key \o "\"" /\ text[i + 1] = ":") + 2]
    ELSE ""

\* C23. handle_tool_call raises for no tool name and no arguments: it
\* returns the text of a JSON object whose "success" is true or false, and
\* for a tool name that is not known, for a required argument that is
\* missing and for an exception that leaves the tool, "success" is false
\* and "error" is a string.
C23_ToolCallNeverRaises ==
    /\ m_result.outcome = "returned"
    /\ m_result.text # <<>> =>
          /\ Head(m_result.text) = "{"
          /\ m_result.text[Len(m_result.text)] = "}"
          /\ JsonField(m_result.text, "success") \in {"true", "false"}
          /\ (\/ m_call.name \notin ToolNames
              \/ \E i \in 1..Len(RequiredArgs(m_call.name)) :
                    RequiredArgs(m_call.name)[i] \notin m_call.keys
              \/ m_raised)
                => /\ JsonField(m_result.text, "success") = "false"
                   /\ JsonField(m_result.text, "error") \notin {"", "null", "true", "false"}

\* create_order without "symbol": the KeyError came back as a failure.
C23_Witness ==
    /\ m_call.name = "create_order"
    /\ m_call.keys = {"side", "quantity"}
    /\ m_raised
    /\ m_result = ToolReturned(<<"{", "\"success\"", ":", "false", ",",
                                 "\"error\"", ":", "\"'symbol'\"", "}">>)

\* C24. When CreateOrderAction.execute has sent any input, the order is
\* within the safety limits: its quantity is at most max_order_quantity
\* and, when it carries a limit price, quantity * limit_price is at most
\* max_order_value. An order over a limit gets a failed result and no
\* input is sent for it.
C24_SafetyLimits ==
    a_call.action = "create_order" =>
       LET p == a_call.params
           over == \/ p.quantity > max_order_quantity
                   \/ p.limit_price.has /\ p.quantity * p.limit_price.v > max_order_value
       IN /\ a_sent # <<>> => (a_call.hasParams /\ ~over)
          /\ (a_pc # "idle" /\ a_call.hasParams /\ over) =>
                /\ a_pc = "returned"
                /\ ~a_result.success
                /\ a_sent = <<>>

\* 1000 shares at a limit of 150 are within the quantity limit and over
\* the value limit: rejected, nothing sent.
C24_Witness ==
    /\ a_pc = "returned"
    /\ a_call.action = "create_order"
    /\ a_call.params.quantity = 1000
    /\ a_call.params.limit_price = Price(150)
    /\ a_result.error = "Order value $150000.00 exceeds max $100000.00"
    /\ a_sent = <<>>

\* The hotkey actions a create_order call relies on
HotkeysReliedOn(call) ==
    {"search_symbol", IF call.params.side = "BUY" THEN "buy" ELSE "sell"}
       \cup (IF call.transmit THEN {"transmit"} ELSE {})

\* C25 (as stated). CreateOrderAction.execute returns success=true only if
\* the search hotkey, the buy or sell hotkey and, when transmit is asked,
\* the transmit hotkey were all sent.
C25_SuccessOnlyIfHotkeysSent ==
    (a_call.action = "create_order" /\ a_pc = "returned" /\ a_result.success) =>
        \A h \in HotkeysReliedOn(a_call) :
           \E k \in 1..Len(a_sent) : a_sent[k].via = h

\* The positions a close_position call can read off the screen
PositionsRead(call) ==
    IF call.screen.captureOk /\ call.screen.region
    THEN ParseRows(call.screen.rows)
    ELSE <<>>

\* The input a call sent beyond opening the portfolio window
OrderEvents == {k \in 1..Len(a_sent) : a_sent[k].via # "portfolio"}

HeldAfter(sent) ==
    {sent[i].vk : i \in {j \in 1..Len(sent) :
        /\ ~sent[j].key_up
        /\ \A l \in (j + 1)..Len(sent) : sent[l].vk # sent[j].vk}}

\* C27 (as stated). The sequence of a binding is its modifiers followed by
\* its key; a hotkey call that ends normally for a key the keyboard knows
\* has pressed the modifiers in order, pressed and released the key, and
\* released the modifiers in reverse order; and after any hotkey call has
\* ended, normally or by a failed key-event send part-way, no key is left
\* held down.
C27_NoKeyLeftHeld ==
    (h_op.op = "execute" /\ bindings[h_op.name].bound) =>
       LET binding == bindings[h_op.name]
           seq == to_sequence(binding)
       IN  /\ seq = binding.modifiers \o <<binding.key>>
           /\ (h_op.ret = "True" /\ KeyLower(binding.key) \in DOMAIN VK_CODES)
                 => h_op.sent = HotkeyEvents(seq)
           /\ HeldAfter(h_op.sent) = {}

\* C30. A find with use_cache=False, which is the find that exists and
\* every poll of wait_for make, neither reads nor modifies the cache: it
\* asks the resolver whenever the strategy has one and leaves the cache as
\* it was. The cache changes only in a find with use_cache=True whose
\* resolver returned an Element, which is stored under the spec's string
\* form, and in clear_cache, which leaves it empty; so every cache entry
\* holds an Element, never None.
C30_CacheFrame ==
    [][LET uncached == \/ f_op'.op = "exists"
                       \/ f_op'.op = "find" /\ ~f_op'.use_cache
       IN  /\ uncached =>
                /\ f_cache' = f_cache
                /\ ~f_op'.looked
                /\ f_op'.resolved = (f_strategies[f_op'.spec.strategy] # "none")
           /\ f_cache' # f_cache =>
                \/ /\ f_op'.op = "find" /\ f_op'.use_cache
                   /\ f_op'.resolved /\ f_op'.outcome = "returned"
                   /\ f_op'.element.kind # "none"
                   /\ DOMAIN f_cache' = DOMAIN f_cache \cup {SpecStr(f_op'.spec)}
                   /\ \A k \in DOMAIN f_cache' :
                         f_cache'[k] = IF k = SpecStr(f_op'.spec)
                                       THEN f_op'.element ELSE f_cache[k]
                \/ f_op'.op = "clear_cache"
           /\ f_op'.op = "clear_cache" => DOMAIN f_cache' = {}
           /\ \A k \in DOMAIN f_cache' : f_cache'[k].kind # "none"
      ]_vars

\* A find with use_cache=False resolved an Element anew while the cache
\* held another one under the same key, and the cache still holds that one.
C30_Witness ==
    /\ f_op.op = "find" /\ ~f_op.use_cache
    /\ SpecStr(f_op.spec) \in DOMAIN f_cache
    /\ f_op.element.kind # "none"
    /\ f_op.element # f_cache[SpecStr(f_op.spec)]

=============================================================================
